---- MODULE Spec2Model ----
(***************************************************************************)
(* Simulation and scoring core of the backtesting package.                 *)
(*                                                                         *)
(* Units.  Money and prices are whole dollars.  time_delta is kept in      *)
(* hundredths (1.0 is 100, the daily step 0.01 is 1).  The schedule's      *)
(* multipliers 1, 1.5, 2 are kept in halves (2, 3, 4), so points are in    *)
(* 1/200ths: points = time_delta * multiplier.  A price ratio is the pair  *)
(* [num, den] of the division exit / entry and is compared with the        *)
(* schedule's thresholds (given per mille) by cross multiplication, which  *)
(* is exact.  Floating point rounding is not modelled.                     *)
(*                                                                         *)
(* prog selects the entry point that is running:                           *)
(*   "run"          Backtester.run          (backtester.py)                *)
(*   "e2e"          Backtester.run on the ten-day series of one round trip *)
(*   "rerun"        Backtester.run called twice on one instance, on the    *)
(*                  same one-bar-a-day series                              *)
(*   "api"          direct calls of the Backtester methods (backtester.py) *)
(*   "run_backtest" Backtester.run_backtest (backtest.py)                  *)
(*   "rerun_bt"     Backtester.run_backtest called twice on one instance,  *)
(*                  on the same one-bar-a-day series                       *)
(*   "scorer"       calls of StrategyScorer (scoring.py, test_scoring.py)  *)
(*   "bbands"       analyze_bbands          (test_bbands.py)               *)
(*   "rsi"          analyze_rsi             (test_rsi.py)                  *)
(*   "update"       update_strategy_scores  (update_scores.py)             *)
(*   "batch"        main and process_symbol (test_strategies.py); a        *)
(*                  symbol's Backtester.run is kept as what it does to the *)
(*                  instance it runs on                                    *)
(***************************************************************************)
EXTENDS Integers, Sequences, FiniteSets, TLC

VARIABLES
    prog,               \* which entry point runs
    pc,                 \* position of the running loop
    initial_capital,    \* self.initial_capital
    min_cash_buffer,    \* self.min_cash_buffer
    max_position_pct,   \* self.max_position_pct, as [num, den]
    capital,            \* self.capital
    trades,             \* self.trades, the ledger
    current_position,   \* self.current_position: None or <<position>>
    time_delta,         \* self.time_delta / scorer.time_delta, in hundredths
    points_tally,       \* self.points_tally, in 1/200ths
    successful_trades,  \* self.successful_trades
    failed_trades,      \* self.failed_trades
    signal,             \* the strategy's signal in force
    current_day,        \* run_backtest's current_day (0 is None)
    last_price,         \* self.last_price (0 until set)
    day,                \* number of distinct calendar days seen in the price series
    now,                \* number of bars consumed: the current bar's timestamp
    row,                \* the bar being processed
    call,               \* the last buy / sell attempt and what it returned
    scored,             \* the last calculate_points call and what it returned
    increments,         \* how many times time_delta was stepped
    bands,              \* analyze_bbands: the day's bands
    stats,              \* analyze_bbands: upper_crosses, lower_crosses, total_minutes
    indicator,          \* run_backtest: daily_data['EMA'], one entry per day
    replay,             \* a run repeated on one instance: its input so far and
                        \* the record the first run returned
    batch,              \* test_strategies.py: the symbols' data, the workers and
                        \* what main has collected
    mongo,              \* update_scores.py: the scores file, the points_tally
                        \* collection and the locals of update_strategy_scores
    result              \* the returned result record, None before

vars == <<prog, pc, initial_capital, min_cash_buffer, max_position_pct, capital,
          trades, current_position, time_delta, points_tally, successful_trades,
          failed_trades, signal, current_day, last_price, day, now, row, call,
          scored, increments, bands, stats, indicator, replay, batch, mongo,
          result>>

----------------------------------------------------------------------------
(* Bounds of the model. *)

MaxBars == 4

\* The number of symbols of a batch.
MaxSymbols == 3

----------------------------------------------------------------------------
(* Program constants. *)

DefaultInitialCapital == 50000
DefaultMinCashBuffer == 15000
InitialTimeDelta == 100
TimeDeltaStep == 1

\* max_position_pct = 0.1
DefaultMaxPositionPct == [num |-> 1, den |-> 10]

----------------------------------------------------------------------------
(* Inputs. *)

\* Close prices of the bars.  6000 exceeds a tenth of every capital used, so a
\* buy at it computes zero shares.
Prices == {100, 105, 110, 6000}

\* Close prices of the series a run is repeated on.
RerunPrices == {100, 110}

\* A Close above every price of Prices, for the exit of a direct call.
HighPrice == 6600

\* Close prices no market gives, which a data file can still hold.
NonPositivePrices == {0, -100}

\* The Close prices Backtester.run is given.
RunPrices == Prices \cup NonPositivePrices

\* Constructor arguments initial_capital.  With 16600 the cash buffer binds:
\* a buy at 100 leaves exactly 15000, a buy at 110 would leave 14950.
InitialCapitals == {DefaultInitialCapital, 16600}

Signals == {"Buy", "Sell", "Hold"}

\* Ratios handed to StrategyScorer.calculate_points, per mille: the six test
\* cases of test_scoring.py, its 1.12, and the schedule's boundaries.
TestRatios == {1030, 1070, 1150, 980, 960, 930, 1120}
BoundaryRatios == {950, 975, 1000, 1050, 1100}
PerMille(r) == [num |-> r, den |-> 1000]
Ratios == {PerMille(r) : r \in TestRatios \cup BoundaryRatios \cup {949, 951, 974, 976, 999, 1001, 1049, 1051, 1099, 1101}}

None == <<>>
\* A bar: its day, its timestamp, its Close, whether its indicator value is
\* NaN, the indicator value attached to it (ema), and the day of the latest
\* daily entry that the signal applied to it was computed from (src, 0 when
\* there is none).
NoRow == [date |-> 0, ts |-> 0, Close |-> 0, nan |-> FALSE, ema |-> 0, src |-> 0]
NoCall == [op |-> "none", price |-> 0, ret |-> FALSE]
NoScore == [ratio |-> PerMille(0), time_delta |-> 0, points |-> 0]
NoBands == [present |-> FALSE, valid |-> FALSE, upper |-> 0, middle |-> 0, lower |-> 0]
NoStats == [upper_crosses |-> 0, lower_crosses |-> 0, total_minutes |-> 0]
NoReplay == [runs |-> 0, tape |-> <<>>, first |-> None, moved |-> 0]
NoBatch == [data |-> <<>>, wpc |-> <<>>, inst |-> <<>>, ret |-> <<>>,
            results |-> <<>>, agg |-> None, scores |-> None]

----------------------------------------------------------------------------
(* Arithmetic of the Python code. *)

Abs(x) == IF x < 0 THEN -x ELSE x

\* int(a / b): the quotient truncated toward zero.
IntDiv(a, b) ==
    LET q == Abs(a) \div Abs(b)
    IN  IF (a < 0) # (b < 0) THEN -q ELSE q

\* The sign of a denominator.
Sgn(x) == IF x < 0 THEN -1 ELSE 1

\* ratio < t/1000 and ratio > t/1000, for a ratio with a nonzero denominator.
RatioLT(ratio, t) == ratio.num * 1000 * Sgn(ratio.den) < t * Abs(ratio.den)
RatioGT(ratio, t) == ratio.num * 1000 * Sgn(ratio.den) > t * Abs(ratio.den)

----------------------------------------------------------------------------
(* scoring.py: StrategyScorer. *)

\* Mutant of Scorer_calculate_points: the boundaries 1.05 and 1.10 fall into
\* the lower band.
Scorer_calculate_points_InclusiveUpper(ratio, td) ==
    IF RatioGT(ratio, 1000)
    THEN IF ~RatioGT(ratio, 1050) THEN td * 2
         ELSE IF ~RatioGT(ratio, 1100) THEN td * 3
         ELSE td * 4
    ELSE IF RatioGT(ratio, 975) THEN -td * 2
         ELSE IF RatioGT(ratio, 950) THEN -td * 3
         ELSE -td * 4

\* Mutant of Scorer_calculate_points: a break-even ratio of 1.00 counts as a
\* gain.
Scorer_calculate_points_BreakEvenGain(ratio, td) ==
    IF ~RatioLT(ratio, 1000)
    THEN IF RatioLT(ratio, 1050) THEN td * 2
         ELSE IF RatioLT(ratio, 1100) THEN td * 3
         ELSE td * 4
    ELSE IF RatioGT(ratio, 975) THEN -td * 2
         ELSE IF RatioGT(ratio, 950) THEN -td * 3
         ELSE -td * 4

\* StrategyScorer.calculate_points, with self.time_delta = td.
Scorer_calculate_points(ratio, td) ==
    IF RatioGT(ratio, 1000)
    THEN IF RatioLT(ratio, 1050) THEN td * 2
         ELSE IF RatioLT(ratio, 1100) THEN td * 3
         ELSE td * 4
    ELSE IF RatioGT(ratio, 975) THEN -td * 2
         ELSE IF RatioGT(ratio, 950) THEN -td * 3
         ELSE -td * 4

\* Mutant of increment_day: the step is applied twice.
increment_day_Twice(td) == td + TimeDeltaStep + TimeDeltaStep

\* StrategyScorer.increment_day: the new self.time_delta.
increment_day(td) == td + TimeDeltaStep

\* StrategyScorer.calculate_trade_points: (points, price_change_ratio).
calculate_trade_points(entry_price, exit_price, td) ==
    LET price_change_ratio == [num |-> exit_price, den |-> entry_price]
    IN  [points |-> Scorer_calculate_points(price_change_ratio, td),
         ratio |-> price_change_ratio]

\* Mutant of calculate_open_position_points: the open position is scored at its
\* entry price.
calculate_open_position_points_AtEntry(entry_price, current_price, td) ==
    calculate_trade_points(entry_price, entry_price, td)

\* StrategyScorer.calculate_open_position_points.
calculate_open_position_points(entry_price, current_price, td) ==
    calculate_trade_points(entry_price, current_price, td)

\* test_scoring.py: get_expected_multiplier, in halves.
get_expected_multiplier(ratio) ==
    IF RatioGT(ratio, 1000)
    THEN IF RatioLT(ratio, 1050) THEN 2
         ELSE IF RatioLT(ratio, 1100) THEN 3
         ELSE 4
    ELSE IF RatioGT(ratio, 975) THEN -2
         ELSE IF RatioGT(ratio, 950) THEN -3
         ELSE -4

----------------------------------------------------------------------------
(* backtester.py: the methods of Backtester. *)

\* Mutant of Backtester_calculate_points: a gain of 5% or more scores double.
Backtester_calculate_points_NoMiddleBand(price_change_ratio, td) ==
    IF RatioGT(price_change_ratio, 1000)
    THEN IF RatioLT(price_change_ratio, 1050) THEN td * 2
         ELSE td * 4
    ELSE IF RatioGT(price_change_ratio, 975) THEN -td * 2
         ELSE IF RatioGT(price_change_ratio, 950) THEN -td * 3
         ELSE -td * 4

\* Backtester.calculate_points, with self.time_delta = td.
Backtester_calculate_points(price_change_ratio, td) ==
    IF RatioGT(price_change_ratio, 1000)
    THEN IF RatioLT(price_change_ratio, 1050) THEN td * 2
         ELSE IF RatioLT(price_change_ratio, 1100) THEN td * 3
         ELSE td * 4
    ELSE IF RatioGT(price_change_ratio, 975) THEN -td * 2
         ELSE IF RatioGT(price_change_ratio, 950) THEN -td * 3
         ELSE -td * 4

\* Mutant of Shares: the quotient is rounded up.
Shares_RoundUp(cap, price) ==
    IntDiv(cap * max_position_pct.num, max_position_pct.den * price) + 1

\* Mutant of Shares: the quotient with its sign reversed.
Shares_Negated(cap, price) ==
    -IntDiv(cap * max_position_pct.num, max_position_pct.den * price)

\* shares = int(self.capital * self.max_position_pct / price)
Shares(cap, price) ==
    IntDiv(cap * max_position_pct.num, max_position_pct.den * price)

\* position_cost = shares * price
PositionCost(shares, price) == shares * price

\* Mutant of BuyAllowed: the cost of the position is not subtracted.
BuyAllowed_BeforeCost(cap, position_cost) == cap >= min_cash_buffer

\* if self.capital - position_cost >= self.min_cash_buffer
BuyAllowed(cap, position_cost) == cap - position_cost >= min_cash_buffer

\* Backtester.execute_buy: the return value and the fields it leaves behind.
execute_buy(timestamp, price) ==
    LET shares == Shares(capital, price)
        position_cost == PositionCost(shares, price)
    IN  IF BuyAllowed(capital, position_cost)
        THEN [ret |-> TRUE,
              current_position |-> <<[entry_date |-> timestamp,
                                      entry_price |-> price,
                                      shares |-> shares,
                                      cost |-> position_cost]>>,
              capital |-> capital - position_cost]
        ELSE [ret |-> FALSE,
              current_position |-> current_position,
              capital |-> capital]

\* Mutant of PositionValue: the position is valued at its cost.
PositionValue_AtCost(position, price) == position.cost

\* position_value = self.current_position['shares'] * price
PositionValue(position, price) == position.shares * price

\* Mutant of AddPoints: the tally is overwritten by the new points.
AddPoints_Overwrite(tally, points) == points

\* self.points_tally += points
AddPoints(tally, points) == tally + points

\* Mutant of IsSuccessful: a break-even trade counts as a success.
IsSuccessful_BreakEven(profit) == profit >= 0

\* if profit > 0: self.successful_trades += 1, else: self.failed_trades += 1
IsSuccessful(profit) == profit > 0

\* Mutant of TradeProfit: the cost is not subtracted.
TradeProfit_Gross(position_value, cost) == position_value

\* profit = position_value - self.current_position['cost']
TradeProfit(position_value, cost) == position_value - cost

\* Mutant of AppendTrade: the record goes to the front of the ledger.
AppendTrade_Prepend(ledger, trade) == <<trade>> \o ledger

\* self.trades.append({...})
AppendTrade(ledger, trade) == Append(ledger, trade)

\* Backtester.execute_sell: the return value and the fields it leaves behind.
execute_sell(timestamp, price) ==
    IF current_position = None
    THEN [ret |-> FALSE, points_tally |-> points_tally,
          successful_trades |-> successful_trades, failed_trades |-> failed_trades,
          trades |-> trades, capital |-> capital,
          current_position |-> current_position, scored |-> scored]
    ELSE LET position == current_position[1]
             position_value == PositionValue(position, price)
             profit == TradeProfit(position_value, position.cost)
             price_change_ratio == [num |-> price, den |-> position.entry_price]
             points == Backtester_calculate_points(price_change_ratio, time_delta)
         IN  [ret |-> TRUE,
              points_tally |-> AddPoints(points_tally, points),
              successful_trades |-> IF IsSuccessful(profit)
                                    THEN successful_trades + 1
                                    ELSE successful_trades,
              failed_trades |-> IF IsSuccessful(profit) THEN failed_trades
                                ELSE failed_trades + 1,
              trades |-> AppendTrade(trades,
                                [entry_date |-> position.entry_date,
                                 exit_date |-> timestamp,
                                 entry_price |-> position.entry_price,
                                 exit_price |-> price,
                                 shares |-> position.shares,
                                 profit |-> profit,
                                 points |-> points,
                                 ratio |-> price_change_ratio,
                                 time_delta |-> time_delta]),
              capital |-> capital + position_value,
              current_position |-> None,
              scored |-> [ratio |-> price_change_ratio, time_delta |-> time_delta,
                          points |-> points]]

\* Mutant of get_portfolio_value: the open position is left out.
get_portfolio_value_CashOnly(cap, position, current_price) == cap

\* Backtester.get_portfolio_value, on the fields given.
get_portfolio_value(cap, position, current_price) ==
    IF position # None
    THEN cap + position[1].shares * current_price
    ELSE cap

\* Backtester.get_results, on the fields given.  total_return is the
\* fraction ((value / initial_capital) - 1) * 100.
get_results(cap, position, price, tally, ledger, wins, losses) ==
    [portfolio_value |-> get_portfolio_value(cap, position, price),
     total_return |-> [num |-> (get_portfolio_value(cap, position, price)
                                - initial_capital) * 100,
                       den |-> initial_capital],
     points |-> tally,
     trades |-> Len(ledger),
     successful_trades |-> wins,
     failed_trades |-> losses,
     open_position |-> position # None]

----------------------------------------------------------------------------
(* backtester.py: Backtester.run, one step per loop iteration. *)

\* The entry points that execute Backtester.run.
RunProgs == {"run", "e2e", "rerun"}

\* The ten-day series of one round trip: one bar a day, the strategy answers
\* Buy on day 1, Sell on day 10 and Hold between; the Close is 100 on day 1
\* and 8% above it on day 10.
E2ESignal(d) == IF d = 1 THEN "Buy" ELSE IF d = 10 THEN "Sell" ELSE "Hold"
E2EPrices(d) == IF d = 1 THEN {100} ELSE IF d = 10 THEN {108} ELSE Prices

\* Whether the price series has a further bar.
RunMoreBars == IF prog = "e2e" THEN now < 10 ELSE now < MaxBars

\* daily_slice = daily_backtest[daily_backtest.index.date <= day]: the day of
\* the last daily bar in the slice the strategy is given on day d.
DailySliceEnd(d) == d

\* strategy_func.__name__ up to "_indicator", as its characters.
StrategyNames ==
    {<<"M", "A", "C", "D">>, <<"R", "S", "I">>, <<"E", "M", "A">>,
     <<"B", "B", "A", "N", "D", "S">>, <<"T", "R", "I", "M", "A">>}

\* len(daily_backtest): the daily bars from indicator_start to end_date.
DailyLengths == {13, 14, 19, 20, 29, 30, 34, 35}

\* sub in name
Contains(name, sub) ==
    \E i \in 0..(Len(name) - Len(sub)) : SubSeq(name, i + 1, i + Len(sub)) = sub

\* required_days of prepare_data.
required_days(name) ==
    IF Contains(name, <<"M", "A", "C", "D">>) THEN 35
    ELSE IF Contains(name, <<"R", "S", "I">>) THEN 14
    ELSE IF Contains(name, <<"E", "M", "A">>) THEN 30
    ELSE IF Contains(name, <<"B", "B", "A", "N", "D", "S">>) THEN 20
    ELSE 35

\* Mutant of InsufficientData: one bar too few is let through.
InsufficientData_OffByOne(n, required) == n < required - 1

\* len(daily_backtest) < required_days
InsufficientData(n, required) == n < required

\* run after reset: load_data has returned the series of the symbol.
RunLoadData(name, n) ==
    /\ prog = "run"
    /\ pc = "start"
    /\ pc' = "loaded"
    /\ call' = [op |-> "prepare_data", price |-> n, ret |-> 0, strategy |-> name]
    /\ UNCHANGED <<prog, mongo, indicator, batch, replay, initial_capital,
                   min_cash_buffer, max_position_pct, capital, trades,
                   current_position, time_delta, points_tally, successful_trades,
                   failed_trades, signal, current_day, last_price, day, now, row,
                   scored, increments, bands, stats, result>>

\* prepare_data: raise ValueError("Insufficient data ..."), which run logs and
\* raises again, or return the series for the loop.
RunPrepareData ==
    /\ prog = "run"
    /\ pc = "loaded"
    /\ IF InsufficientData(call.price, required_days(call.strategy))
       THEN /\ pc' = "raised"
            /\ call' = [call EXCEPT !.ret = required_days(call.strategy)]
       ELSE /\ pc' = "days"
            /\ call' = NoCall
    /\ UNCHANGED <<prog, mongo, indicator, batch, replay, initial_capital,
                   min_cash_buffer, max_position_pct, capital, trades,
                   current_position, time_delta, points_tally, successful_trades,
                   failed_trades, signal, current_day, last_price, day, now, row,
                   scored, increments, bands, stats, result>>

\* for day, day_data in daily_groups: signal = strategy_func(symbol, daily_slice)
RunBeginDay(sig) ==
    /\ prog \in RunProgs
    /\ pc = "days"
    /\ RunMoreBars
    /\ prog = "e2e" => sig = E2ESignal(day + 1)
    /\ (prog = "rerun" /\ replay.runs = 1)
       => (now < Len(replay.tape) /\ sig = replay.tape[now + 1].sig)
    /\ day' = day + 1
    /\ signal' = sig
    /\ pc' = "bars"
    /\ UNCHANGED <<prog, mongo, indicator, batch, replay, initial_capital, min_cash_buffer, max_position_pct,
                   capital, trades, current_position, time_delta, points_tally,
                   successful_trades, failed_trades, current_day, last_price,
                   now, row, call, scored, increments, bands, stats, result>>

\* Mutant of NextBar: the loop stays on the bar it has met.
NextBar_Stay(n) == n

\* iterrows(): the position in the series after the next bar is taken.
NextBar(n) == n + 1

\* Mutant of RunBuyGuard: a flat book buys whatever the signal.
RunBuyGuard_AnySignal == current_position = None

\* Mutant of RunBuyGuard: the open position is not looked at.
RunBuyGuard_IgnoresPosition == signal = "Buy"

\* if signal == 'Buy' and not self.current_position
RunBuyGuard == signal = "Buy" /\ current_position = None

\* Mutant of RunSellGuard: every signal but Buy sells.
RunSellGuard_NotBuy == signal # "Buy" /\ current_position # None

\* elif signal == 'Sell' and self.current_position
RunSellGuard == signal = "Sell" /\ current_position # None

\* for timestamp, row in day_data.iterrows(): apply the day's signal to the bar.
RunBar(price) ==
    /\ prog \in RunProgs
    /\ pc = "bars"
    /\ RunMoreBars
    /\ prog = "run" => price \in RunPrices
    /\ prog = "e2e" => (row.date < day /\ price \in E2EPrices(day))
    /\ prog = "rerun"
       => /\ row.date < day
          /\ price \in RerunPrices
          /\ replay.runs = 1 => price = replay.tape[now + 1].Close
    /\ now' = NextBar(now)
    /\ row' = [date |-> day, ts |-> now + 1, Close |-> price, nan |-> FALSE,
                ema |-> 0, src |-> DailySliceEnd(day)]
    /\ IF RunBuyGuard /\ price = 0
       THEN \* int(max_position_value / price) raises; run logs and re-raises
            /\ pc' = "raised"
            /\ call' = [op |-> "execute_buy", price |-> price, ret |-> FALSE]
            /\ UNCHANGED <<capital, current_position, trades, points_tally,
                           successful_trades, failed_trades, scored>>
       ELSE IF RunBuyGuard
       THEN LET b == execute_buy(now + 1, price)
            IN  /\ capital' = b.capital
                /\ current_position' = b.current_position
                /\ call' = [op |-> "execute_buy", price |-> price, ret |-> b.ret]
                /\ pc' = pc
                /\ UNCHANGED <<trades, points_tally, successful_trades,
                               failed_trades, scored>>
       ELSE IF RunSellGuard
       THEN LET s == execute_sell(now + 1, price)
            IN  /\ capital' = s.capital
                /\ current_position' = s.current_position
                /\ trades' = s.trades
                /\ points_tally' = s.points_tally
                /\ successful_trades' = s.successful_trades
                /\ failed_trades' = s.failed_trades
                /\ scored' = s.scored
                /\ call' = [op |-> "execute_sell", price |-> price, ret |-> s.ret]
                /\ pc' = pc
       ELSE /\ call' = NoCall
            /\ pc' = pc
            /\ UNCHANGED <<capital, current_position, trades, points_tally,
                           successful_trades, failed_trades, scored>>
    \* replay.moved keeps the calendar day of the last bar that opened or
    \* closed a position: the date of the timestamp the call was given.
    /\ LET taped == IF prog = "rerun" /\ replay.runs = 0
                     THEN [replay EXCEPT !.tape = Append(@, [date |-> day,
                                                             sig |-> signal,
                                                             Close |-> price])]
                     ELSE replay
       IN  replay' = IF current_position' # current_position
                     THEN [taped EXCEPT !.moved = day]
                     ELSE taped
    /\ UNCHANGED <<prog, mongo, indicator, batch, initial_capital, min_cash_buffer, max_position_pct,
                   time_delta, signal, current_day, last_price, day, increments,
                   bands, stats, result>>

\* self.time_delta += 0.01
RunStep(td) == td + TimeDeltaStep

\* After the day's last bar: increment time_delta at end of day.
RunEndDay ==
    /\ prog \in RunProgs
    /\ pc = "bars"
    /\ row.date = day
    /\ time_delta' = RunStep(time_delta)
    /\ increments' = increments + 1
    /\ pc' = "days"
    /\ UNCHANGED <<prog, mongo, indicator, batch, replay, initial_capital, min_cash_buffer, max_position_pct,
                   capital, trades, current_position, points_tally,
                   successful_trades, failed_trades, signal, current_day,
                   last_price, day, now, row, call, scored, bands, stats, result>>

\* After the loop: self.last_price, the unrealized points, get_results().
\* With no bar at all, minute_backtest['Close'].iloc[-1] raises and run re-raises.
RunFinish ==
    /\ prog \in RunProgs
    /\ pc = "days"
    /\ prog = "e2e" => day = 10
    /\ (prog = "rerun" /\ replay.runs = 1) => now = Len(replay.tape)
    /\ IF day = 0
       THEN /\ pc' = "raised"
            /\ UNCHANGED <<last_price, points_tally, scored, result>>
       ELSE LET price == row.Close
                unrealized_points ==
                    Backtester_calculate_points(
                        [num |-> price, den |-> current_position[1].entry_price],
                        time_delta)
                tally == IF current_position # None
                         THEN AddPoints(points_tally, unrealized_points)
                         ELSE points_tally
            IN  /\ last_price' = price
                /\ points_tally' = tally
                /\ scored' = IF current_position # None
                             THEN [ratio |-> [num |-> price,
                                              den |-> current_position[1].entry_price],
                                   time_delta |-> time_delta,
                                   points |-> unrealized_points]
                             ELSE scored
                /\ result' = <<get_results(capital, current_position, price, tally,
                                           trades, successful_trades, failed_trades)>>
                /\ pc' = "done"
    /\ UNCHANGED <<prog, mongo, indicator, batch, replay, initial_capital, min_cash_buffer, max_position_pct,
                   capital, trades, current_position, time_delta,
                   successful_trades, failed_trades, signal, current_day, day,
                   now, row, call, increments, bands, stats>>

----------------------------------------------------------------------------
(* backtester.py: the methods of Backtester called directly. *)

ApiExecuteBuy(price) ==
    /\ prog = "api"
    /\ now < MaxBars
    /\ now' = now + 1
    /\ LET b == execute_buy(now + 1, price)
       IN  /\ capital' = b.capital
           /\ current_position' = b.current_position
           /\ call' = [op |-> "execute_buy", price |-> price, ret |-> b.ret]
    /\ UNCHANGED <<prog, mongo, indicator, batch, replay, pc, initial_capital, min_cash_buffer, max_position_pct,
                   trades, time_delta, points_tally, successful_trades,
                   failed_trades, signal, current_day, last_price, day, row,
                   scored, increments, bands, stats, result>>

ApiExecuteSell(price) ==
    /\ prog = "api"
    /\ now < MaxBars
    /\ now' = now + 1
    /\ LET s == execute_sell(now + 1, price)
       IN  /\ capital' = s.capital
           /\ current_position' = s.current_position
           /\ trades' = s.trades
           /\ points_tally' = s.points_tally
           /\ successful_trades' = s.successful_trades
           /\ failed_trades' = s.failed_trades
           /\ scored' = s.scored
           /\ call' = [op |-> "execute_sell", price |-> price, ret |-> s.ret]
    /\ UNCHANGED <<prog, mongo, indicator, batch, replay, pc, initial_capital, min_cash_buffer, max_position_pct,
                   time_delta, signal, current_day, last_price, day, row,
                   increments, bands, stats, result>>

\* value = backtester.get_portfolio_value(price); ret is the value returned.
ApiGetPortfolioValue(price) ==
    /\ prog = "api"
    /\ call' = [op |-> "get_portfolio_value", price |-> price,
                ret |-> get_portfolio_value(capital, current_position, price)]
    /\ UNCHANGED <<prog, mongo, indicator, batch, replay, pc, initial_capital, min_cash_buffer, max_position_pct,
                   capital, trades, current_position, time_delta, points_tally,
                   successful_trades, failed_trades, signal, current_day,
                   last_price, day, now, row, scored, increments, bands, stats,
                   result>>

\* Mutant of reset: time_delta is left as the last run left it.
reset_KeepsTimeDelta ==
    [capital |-> initial_capital, trades |-> <<>>, current_position |-> None,
     time_delta |-> time_delta, points_tally |-> 0, successful_trades |-> 0,
     failed_trades |-> 0]

\* Backtester.reset: the fields it assigns.
reset ==
    [capital |-> initial_capital, trades |-> <<>>, current_position |-> None,
     time_delta |-> InitialTimeDelta, points_tally |-> 0, successful_trades |-> 0,
     failed_trades |-> 0]

\* backtester.run(symbol, strategy) called again on the instance, with the
\* data of the first call: self.reset(), and the loop starts over.
\* last_price is not among the fields reset assigns.
RunAgain ==
    /\ prog = "rerun"
    /\ pc = "done"
    /\ replay.runs = 0
    /\ replay' = [replay EXCEPT !.runs = 1, !.first = result, !.moved = 0]
    /\ capital' = reset.capital
    /\ trades' = reset.trades
    /\ current_position' = reset.current_position
    /\ time_delta' = reset.time_delta
    /\ points_tally' = reset.points_tally
    /\ successful_trades' = reset.successful_trades
    /\ failed_trades' = reset.failed_trades
    /\ result' = None
    /\ pc' = "days"
    /\ day' = 0
    /\ now' = 0
    /\ row' = NoRow
    /\ signal' = "Hold"
    /\ call' = NoCall
    /\ scored' = NoScore
    /\ increments' = 0
    /\ UNCHANGED <<prog, mongo, indicator, batch, initial_capital, min_cash_buffer,
                   max_position_pct, current_day, last_price, bands, stats>>

\* results = backtester.get_results(), called again after run has returned.
RunGetResults ==
    /\ prog \in RunProgs
    /\ pc = "done"
    /\ call' = [op |-> "get_results", price |-> last_price, ret |-> TRUE]
    /\ result' = <<get_results(capital, current_position, last_price,
                               points_tally, trades, successful_trades,
                               failed_trades)>>
    /\ UNCHANGED <<prog, mongo, indicator, batch, replay, pc, initial_capital, min_cash_buffer, max_position_pct,
                   capital, trades, current_position, time_delta, points_tally,
                   successful_trades, failed_trades, signal, current_day,
                   last_price, day, now, row, scored, increments, bands, stats>>

----------------------------------------------------------------------------
(* scoring.py: StrategyScorer called as test_scoring.py calls it. *)

\* points = scorer.calculate_points(ratio)
ScorerCalculatePoints(ratio) ==
    /\ prog = "scorer"
    /\ scored' = [ratio |-> ratio, time_delta |-> time_delta,
                  points |-> Scorer_calculate_points(ratio, time_delta)]
    /\ UNCHANGED <<prog, mongo, indicator, batch, replay, pc, initial_capital, min_cash_buffer, max_position_pct,
                   capital, trades, current_position, time_delta, points_tally,
                   successful_trades, failed_trades, signal, current_day,
                   last_price, day, now, row, call, increments, bands, stats,
                   result>>

\* The greatest common divisor of two naturals.
RECURSIVE GCD(_, _)
GCD(a, b) == IF b = 0 THEN a ELSE GCD(b, a % b)

\* The fraction x in lowest terms.
Reduce(x) ==
    LET g == GCD(Abs(x.num), Abs(x.den))
    IN  [num |-> x.num \div g, den |-> x.den \div g]

\* Mutant of calculate_strategy_score: the portfolio ratio is not doubled.
calculate_strategy_score_Unweighted(portfolio_value, tally) ==
    Reduce([num |-> tally * initial_capital + portfolio_value * 2000,
            den |-> 2000 * initial_capital])

\* StrategyScorer.calculate_strategy_score: the tally, in 1/200ths, over 10
\* plus twice portfolio_value over self.initial_capital, as one fraction.
calculate_strategy_score(portfolio_value, tally) ==
    Reduce([num |-> tally * initial_capital + portfolio_value * 2 * 2000,
            den |-> 2000 * initial_capital])

\* test_portfolios, and a tally that is no multiple of a point.
ScorePortfolios == {45000, 50000, 55000}
ScoreTallies == {2000, -1000, 327}

\* scorer.calculate_strategy_score(portfolio_value, points_tally)
ScorerCalculateStrategyScore(portfolio_value, tally) ==
    /\ prog = "scorer"
    /\ call' = [op |-> "calculate_strategy_score", price |-> portfolio_value,
                ret |-> calculate_strategy_score(portfolio_value, tally),
                points_tally |-> tally]
    /\ UNCHANGED <<prog, mongo, indicator, batch, replay, pc, initial_capital,
                   min_cash_buffer, max_position_pct, capital, trades,
                   current_position, time_delta, points_tally, successful_trades,
                   failed_trades, signal, current_day, last_price, day, now, row,
                   scored, increments, bands, stats, result>>

\* scorer.increment_day()
ScorerIncrementDay ==
    /\ prog = "scorer"
    /\ increments < MaxBars
    /\ time_delta' = increment_day(time_delta)
    /\ increments' = increments + 1
    /\ UNCHANGED <<prog, mongo, indicator, batch, replay, pc, initial_capital, min_cash_buffer, max_position_pct,
                   capital, trades, current_position, points_tally,
                   successful_trades, failed_trades, signal, current_day,
                   last_price, day, now, row, call, scored, bands, stats, result>>

----------------------------------------------------------------------------
(* backtest.py: Backtester.run_backtest, one step per bar. *)

\* The value .asof gives when no entry qualifies: NaN.
NoEntry == [date |-> 0, nan |-> TRUE, value |-> 0]

\* daily_data['EMA']: one entry per day of the series, stamped at the start of
\* its day and computed from the daily closes up to that day's; talib.EMA
\* leaves a prefix of the days undefined.  first is the first defined day.
IndicatorSeries ==
    {[d \in 1..MaxBars |-> [date |-> d, nan |-> d < first, value |-> 10 * d]] :
         first \in 1..(MaxBars + 1)}

\* The greatest element of a non-empty set of integers.
Max(S) == CHOOSE x \in S : \A y \in S : y <= x

\* Mutant of Asof: the entry of the following day is within reach.
Asof_Lookahead(series, t) ==
    LET S == {i \in DOMAIN series : series[i].date <= t + 1 /\ ~series[i].nan}
    IN  IF S = {} THEN NoEntry ELSE series[Max(S)]

\* daily_data['EMA'].asof(x): the last entry stamped at or before x whose value
\* is not NaN, and NaN when there is none.  An entry is stamped at the start
\* of its day and a bar within its day, so the stamps compare as the days do.
Asof(series, t) ==
    LET S == {i \in DOMAIN series : series[i].date <= t /\ ~series[i].nan}
    IN  IF S = {} THEN NoEntry ELSE series[Max(S)]

\* max_position_value = self.capital * 0.1
BtMaxPositionPct == [num |-> 1, den |-> 10]

\* shares = int(max_position_value / row['Close'])
BtShares(cap, price) ==
    IntDiv(cap * BtMaxPositionPct.num, BtMaxPositionPct.den * price)

\* if self.capital - position_cost >= self.min_cash_buffer
BtBuyAllowed(cap, position_cost) == cap - position_cost >= min_cash_buffer

\* if signal == 'Buy' and self.current_position is None
BtBuyGuard(sig) == sig = "Buy" /\ current_position = None

\* elif signal == 'Sell' and self.current_position is not None
BtSellGuard(sig) == sig = "Sell" /\ current_position # None

\* The entry points that execute Backtester.run_backtest.
BtProgs == {"run_backtest", "rerun_bt"}

\* if current_day != trading_day
BtNewDay(trading_day) == current_day # trading_day

\* One iteration of `for timestamp, row in backtest_data.iterrows()`.  The bar
\* is on the day of the bar before it or on the next day of the series
\* (new_day); nan says that its EMA, attached by the alignment before the
\* loop, is undefined; sig is what the strategy answers for it.  The position's entry_ema is only logged and is left out.
BtBar(new_day, price, nan, sig) ==
    /\ prog \in BtProgs
    /\ pc = "bars"
    /\ now < MaxBars
    /\ prog = "rerun_bt"
       => /\ new_day
          /\ price \in RerunPrices
          /\ replay.runs = 1
             => /\ now < Len(replay.tape)
                /\ price = replay.tape[now + 1].Close
                /\ sig = replay.tape[now + 1].sig
    /\ replay' = IF prog = "rerun_bt" /\ replay.runs = 0
                 THEN [replay EXCEPT !.tape = Append(@, [date |-> day + 1,
                                                         sig |-> sig,
                                                         Close |-> price])]
                 ELSE replay
    /\ new_day \/ day > 0
    /\ LET trading_day == IF new_day THEN day + 1 ELSE day
           ts == now + 1
           ema == Asof(indicator, trading_day)
       IN  /\ nan = ema.nan
           /\ day' = trading_day
           /\ now' = NextBar(now)
           /\ row' = [date |-> trading_day, ts |-> ts, Close |-> price, nan |-> nan,
                       ema |-> ema.value, src |-> ema.date]
           /\ IF BtNewDay(trading_day)
              THEN /\ current_day' = trading_day
                   /\ time_delta' = increment_day(time_delta)
                   /\ increments' = increments + 1
              ELSE UNCHANGED <<current_day, time_delta, increments>>
           /\ IF nan
              THEN /\ call' = NoCall
                   /\ UNCHANGED <<signal, capital, current_position, trades, scored>>
              ELSE /\ signal' = sig
                   /\ IF BtBuyGuard(sig)
                      THEN LET shares == BtShares(capital, price)
                               position_cost == shares * price
                           IN  /\ IF BtBuyAllowed(capital, position_cost)
                                  THEN /\ current_position' =
                                            <<[entry_date |-> ts,
                                               entry_price |-> price,
                                               shares |-> shares,
                                               cost |-> position_cost]>>
                                       /\ capital' = capital - position_cost
                                       /\ call' = [op |-> "execute_buy",
                                                   price |-> price, ret |-> TRUE]
                                  ELSE /\ call' = [op |-> "execute_buy",
                                                   price |-> price, ret |-> FALSE]
                                       /\ UNCHANGED <<capital, current_position>>
                               /\ UNCHANGED <<trades, scored>>
                      ELSE IF BtSellGuard(sig)
                      THEN LET position == current_position[1]
                               position_value == position.shares * price
                               profit == TradeProfit(position_value, position.cost)
                               tp == calculate_trade_points(
                                         position.entry_price, price, time_delta')
                           IN  /\ trades' = AppendTrade(trades,
                                      [entry_date |-> position.entry_date,
                                       exit_date |-> ts,
                                       entry_price |-> position.entry_price,
                                       exit_price |-> price,
                                       shares |-> position.shares,
                                       profit |-> profit,
                                       points |-> tp.points,
                                       ratio |-> tp.ratio])
                               /\ scored' = [ratio |-> tp.ratio,
                                             time_delta |-> time_delta',
                                             points |-> tp.points]
                               /\ capital' = capital + position_value
                               /\ current_position' = None
                               /\ call' = [op |-> "execute_sell",
                                           price |-> price, ret |-> TRUE]
                      ELSE /\ call' = NoCall
                           /\ UNCHANGED <<capital, current_position, trades, scored>>
    /\ UNCHANGED <<prog, mongo, indicator, batch, pc, initial_capital, min_cash_buffer, max_position_pct,
                   points_tally, successful_trades, failed_trades, last_price,
                   bands, stats, result>>

\* sum(t['points'] for t in self.trades)
RECURSIVE SumPoints(_)
SumPoints(ledger) ==
    IF ledger = <<>> THEN 0
    ELSE ledger[1].points + SumPoints(Tail(ledger))

\* len([t for t in self.trades if t['profit'] > 0])
CountWins(ledger) == Cardinality({i \in DOMAIN ledger : ledger[i].profit > 0})

\* len([t for t in self.trades if t['profit'] <= 0])
CountLosses(ledger) == Cardinality({i \in DOMAIN ledger : ledger[i].profit <= 0})

\* Backtester.get_results of backtest.py.  total_return and win_rate are the
\* fractions ((value / initial) - 1) * 100 and wins / trades * 100.
BtGetResults ==
    IF trades = <<>> /\ current_position = None
    THEN [initial_capital |-> initial_capital,
          final_capital |-> capital,
          total_return |-> [num |-> 0, den |-> 1],
          total_trades |-> 0,
          successful_trades |-> 0,
          failed_trades |-> 0,
          win_rate |-> [num |-> 0, den |-> 1],
          total_points |-> 0,
          open_position |-> FALSE]
    ELSE LET close == row.Close
             open_points ==
                 calculate_open_position_points(
                     current_position[1].entry_price, close, time_delta).points
             tally == IF current_position # None
                      THEN SumPoints(trades) + open_points
                      ELSE SumPoints(trades)
             portfolio_value ==
                 IF current_position # None
                 THEN capital + current_position[1].shares * close
                 ELSE capital
         IN  [initial_capital |-> initial_capital,
              final_capital |-> portfolio_value,
              total_return |-> [num |-> (portfolio_value - initial_capital) * 100,
                                den |-> initial_capital],
              total_trades |-> Len(trades),
              successful_trades |-> CountWins(trades),
              failed_trades |-> CountLosses(trades),
              win_rate |-> IF trades # <<>>
                           THEN [num |-> CountWins(trades) * 100, den |-> Len(trades)]
                           ELSE [num |-> 0, den |-> 1],
              total_points |-> tally,
              open_position |-> current_position # None]

\* return self.get_results(backtest_data), after the last bar.
BtFinish ==
    /\ prog \in BtProgs
    /\ pc = "bars"
    /\ (prog = "rerun_bt" /\ replay.runs = 1) => now = Len(replay.tape)
    /\ result' = <<BtGetResults>>
    /\ scored' = IF current_position # None
                 THEN LET op == calculate_open_position_points(
                                    current_position[1].entry_price, row.Close,
                                    time_delta)
                      IN  [ratio |-> op.ratio, time_delta |-> time_delta,
                           points |-> op.points]
                 ELSE scored
    /\ pc' = "done"
    /\ UNCHANGED <<prog, mongo, indicator, batch, replay, initial_capital, min_cash_buffer, max_position_pct,
                   capital, trades, current_position, time_delta, points_tally,
                   successful_trades, failed_trades, signal, current_day,
                   last_price, day, now, row, call, increments, bands, stats>>

\* backtester.run_backtest(data, strategy) called again on the instance, with
\* the data of the first call.  run_backtest assigns current_day = None and
\* nothing else before its loop.
BtAgain ==
    /\ prog = "rerun_bt"
    /\ pc = "done"
    /\ replay.runs = 0
    /\ replay' = [replay EXCEPT !.runs = 1, !.first = result]
    /\ current_day' = 0
    /\ result' = None
    /\ pc' = "bars"
    /\ day' = 0
    /\ now' = 0
    /\ row' = NoRow
    /\ signal' = "Hold"
    /\ call' = NoCall
    /\ UNCHANGED <<prog, mongo, indicator, batch, initial_capital, min_cash_buffer,
                   max_position_pct, capital, trades, current_position,
                   time_delta, points_tally, successful_trades, failed_trades,
                   last_price, scored, increments, bands, stats>>

----------------------------------------------------------------------------
(* test_strategies.py: main and process_symbol.  Every symbol is a task of   *)
(* the pool; the tasks' steps interleave freely.                             *)

\* What Backtester.run does on a symbol's data: it raises, or it leaves the
\* instance with so many trades, wins, so much profit and so many points
\* (1/200ths), having met so many minute bars.  A round trip 100 -> 108 closed
\* on the tenth day, one 100 -> 95 closed on the second day, and no trade.
SymbolRuns ==
    {[raises |-> TRUE, bars |-> 0, trades |-> 0, wins |-> 0, profit |-> 0,
      points |-> 0],
     [raises |-> FALSE, bars |-> 2, trades |-> 0, wins |-> 0, profit |-> 0,
      points |-> 0],
     [raises |-> FALSE, bars |-> 10, trades |-> 1, wins |-> 1, profit |-> 400,
      points |-> 327],
     [raises |-> FALSE, bars |-> 2, trades |-> 1, wins |-> 0, profit |-> -250,
      points |-> -404]}

Symbols == 1..MaxSymbols

\* Mutant of Owner: every task works on one and the same instance.
Owner_Shared(s) == 1

\* backtester = Backtester(): the instance the task of symbol s works on.
Owner(s) == s

\* Backtester(): the fields after __init__.
FreshInstance ==
    [capital |-> DefaultInitialCapital, trades |-> 0, successful_trades |-> 0,
     failed_trades |-> 0, points_tally |-> 0]

\* backtester = Backtester()
BatchCreate(s) ==
    /\ prog = "batch"
    /\ pc = "pool"
    /\ batch.wpc[s] = "queued"
    /\ batch' = [batch EXCEPT !.wpc[s] = "created",
                              !.inst[Owner(s)] = FreshInstance]
    /\ UNCHANGED <<prog, mongo, indicator, replay, pc, initial_capital, min_cash_buffer,
                   max_position_pct, capital, trades, current_position,
                   time_delta, points_tally, successful_trades, failed_trades,
                   signal, current_day, last_price, day, now, row, call, scored,
                   increments, bands, stats, result>>

\* backtester.run(symbol, strategy) up to its return statement: reset and the
\* loop, or an exception, which process_symbol catches to return None.
BatchRun(s) ==
    /\ prog = "batch"
    /\ pc = "pool"
    /\ batch.wpc[s] = "created"
    /\ LET d == batch.data[s]
       IN  IF d.raises
           THEN batch' = [batch EXCEPT !.wpc[s] = "returned", !.ret[s] = None]
           ELSE batch' = [batch EXCEPT
                    !.wpc[s] = "ran",
                    !.inst[Owner(s)] =
                        [capital |-> FreshInstance.capital + d.profit,
                         trades |-> d.trades,
                         successful_trades |-> d.wins,
                         failed_trades |-> d.trades - d.wins,
                         points_tally |-> d.points]]
    /\ UNCHANGED <<prog, mongo, indicator, replay, pc, initial_capital, min_cash_buffer,
                   max_position_pct, capital, trades, current_position,
                   time_delta, points_tally, successful_trades, failed_trades,
                   signal, current_day, last_price, day, now, row, call, scored,
                   increments, bands, stats, result>>

\* return self.get_results(), then minute_decisions and symbol are added and
\* process_symbol returns the record.
BatchReturn(s) ==
    /\ prog = "batch"
    /\ pc = "pool"
    /\ batch.wpc[s] = "ran"
    /\ LET b == batch.inst[Owner(s)]
       IN  batch' = [batch EXCEPT
               !.wpc[s] = "returned",
               !.ret[s] = <<[symbol |-> s,
                             portfolio_value |-> b.capital,
                             total_return |->
                                 [num |-> (b.capital - DefaultInitialCapital) * 100,
                                  den |-> DefaultInitialCapital],
                             points |-> b.points_tally,
                             trades |-> b.trades,
                             successful_trades |-> b.successful_trades,
                             failed_trades |-> b.failed_trades,
                             open_position |-> FALSE,
                             minute_decisions |-> batch.data[s].bars]>>]
    /\ UNCHANGED <<prog, mongo, indicator, replay, pc, initial_capital, min_cash_buffer,
                   max_position_pct, capital, trades, current_position,
                   time_delta, points_tally, successful_trades, failed_trades,
                   signal, current_day, last_price, day, now, row, call, scored,
                   increments, bands, stats, result>>

\* Mutant of Collected: a failed symbol stays in the list as an empty record.
RECURSIVE Collected_KeepsFailed(_)
Collected_KeepsFailed(rets) ==
    IF rets = <<>> THEN <<>>
    ELSE <<IF Head(rets) = None
           THEN [symbol |-> 0, portfolio_value |-> DefaultInitialCapital,
                 total_return |-> [num |-> 0, den |-> DefaultInitialCapital],
                 points |-> 0, trades |-> 0, successful_trades |-> 0,
                 failed_trades |-> 0, open_position |-> FALSE,
                 minute_decisions |-> 0]
           ELSE Head(rets)[1]>> \o Collected_KeepsFailed(Tail(rets))

\* results = [r for r in pool.map(process_func, symbols) if r is not None]
RECURSIVE Collected(_)
Collected(rets) ==
    IF rets = <<>> THEN <<>>
    ELSE (IF Head(rets) = None THEN <<>> ELSE <<Head(rets)[1]>>)
         \o Collected(Tail(rets))

\* sum(...) over a list of integers.
RECURSIVE Sum(_)
Sum(seq) == IF seq = <<>> THEN 0 ELSE Head(seq) + Sum(Tail(seq))

\* Mutant of AveragePoints: the total is not divided.
AveragePoints_Total(total_points, n) == [num |-> total_points, den |-> 200]

\* avg_points = total_points / len(results), points being in 1/200ths.
AveragePoints(total_points, n) == [num |-> total_points, den |-> 200 * n]

\* The metrics main computes from results, as exact fractions.  The
\* total_return of every record has the denominator initial_capital.
Aggregate(results) ==
    LET total_points == Sum([i \in DOMAIN results |-> results[i].points])
        total_trades == Sum([i \in DOMAIN results |-> results[i].trades])
        total_success ==
            Sum([i \in DOMAIN results |-> results[i].successful_trades])
        total_failed == Sum([i \in DOMAIN results |-> results[i].failed_trades])
        total_minute_decisions ==
            Sum([i \in DOMAIN results |-> results[i].minute_decisions])
    IN  [total_points |-> [num |-> total_points, den |-> 200],
         total_trades |-> total_trades,
         total_success |-> total_success,
         total_failed |-> total_failed,
         total_minute_decisions |-> total_minute_decisions,
         avg_return |->
             [num |-> Sum([i \in DOMAIN results |-> results[i].total_return.num]),
              den |-> DefaultInitialCapital * Len(results)],
         avg_points |-> AveragePoints(total_points, Len(results)),
         win_rate |-> IF total_trades > 0
                      THEN [num |-> total_success * 100, den |-> total_trades]
                      ELSE [num |-> 0, den |-> 1]]

\* round(x, 2): the hundredths that lie nearest to the fraction x; a fraction
\* halfway between two has both, the float that stands for it deciding.
Round2(x) ==
    LET q == IntDiv(100 * x.num, x.den)
    IN  {h \in (q - 1)..(q + 1) :
             Abs(200 * x.num - 2 * h * x.den) <= Abs(x.den)}

\* main after pool.map has returned: the metrics, and the record written to
\* strategy_scores.json when results is not empty.
MainCollect ==
    /\ prog = "batch"
    /\ pc = "pool"
    /\ \A s \in Symbols : batch.wpc[s] = "returned"
    /\ LET results == Collected(batch.ret)
           agg == Aggregate(results)
       IN  IF results # <<>>
           THEN \E tp \in Round2(agg.total_points), ap \in Round2(agg.avg_points),
                   wr \in Round2(agg.win_rate), ar \in Round2(agg.avg_return) :
                    batch' = [batch EXCEPT
                        !.results = results,
                        !.agg = <<agg>>,
                        !.scores = <<[total_points |-> tp,
                                      average_points |-> ap,
                                      win_rate |-> wr,
                                      total_trades |-> agg.total_trades,
                                      average_return |-> ar,
                                      total_minute_decisions |->
                                          agg.total_minute_decisions]>>]
           ELSE batch' = [batch EXCEPT !.results = results]
    /\ pc' = "done"
    /\ UNCHANGED <<prog, mongo, indicator, replay, initial_capital, min_cash_buffer,
                   max_position_pct, capital, trades, current_position,
                   time_delta, points_tally, successful_trades, failed_trades,
                   signal, current_day, last_price, day, now, row, call, scored,
                   increments, bands, stats, result>>

----------------------------------------------------------------------------
(* test_bbands.py: analyze_bbands, one step per loop iteration. *)

\* The bands talib.BBANDS can give a day: lower <= middle <= upper.
BandValues == {[upper |-> 108, middle |-> 104, lower |-> 101],
               [upper |-> 105, middle |-> 105, lower |-> 105]}

\* for day, day_data in tqdm(daily_groups): the day is in daily_data.index or
\* not (present), its bands are numbers or not (valid).  A day that is absent
\* or has invalid bands is left with `continue`.
BbBeginDay(present, valid, b) ==
    /\ prog = "bbands"
    /\ pc = "days"
    /\ now < MaxBars
    /\ day < MaxBars
    /\ day' = day + 1
    /\ IF ~present
       THEN /\ bands' = NoBands
            /\ pc' = "days"
       ELSE IF ~valid
       THEN /\ bands' = [NoBands EXCEPT !.present = TRUE]
            /\ pc' = "days"
       ELSE /\ bands' = [present |-> TRUE, valid |-> TRUE, upper |-> b.upper,
                         middle |-> b.middle, lower |-> b.lower]
            /\ pc' = "bars"
    /\ UNCHANGED <<prog, mongo, indicator, batch, replay, initial_capital, min_cash_buffer, max_position_pct,
                   capital, trades, current_position, time_delta, points_tally,
                   successful_trades, failed_trades, signal, current_day,
                   last_price, now, row, call, scored, increments, stats, result>>

\* The schedule inlined in analyze_bbands: it branches on Close > entry_price.
BbPoints(close, entry_price, price_change_ratio, td) ==
    IF close > entry_price
    THEN IF RatioLT(price_change_ratio, 1050) THEN td * 2
         ELSE IF RatioLT(price_change_ratio, 1100) THEN td * 3
         ELSE td * 4
    ELSE IF RatioGT(price_change_ratio, 975) THEN -td * 2
         ELSE IF RatioGT(price_change_ratio, 950) THEN -td * 3
         ELSE -td * 4

\* Mutant of TrendUp: the trend is up below the middle band.
TrendUp_Below(price, b) == price < b.middle

\* trend_up = row['Close'] > row['BB_middle']
TrendUp(price, b) == price > b.middle

\* for _, row in day_data.iterrows().  The day's cross and minute counts, which
\* the code adds before the loop, are added bar by bar.
BbRow(price) ==
    /\ prog = "bbands"
    /\ pc = "bars"
    /\ now < MaxBars
    /\ now' = now + 1
    /\ row' = [date |-> day, ts |-> now + 1, Close |-> price, nan |-> FALSE,
                ema |-> 0, src |-> day]
    /\ stats' = [upper_crosses |-> stats.upper_crosses
                                   + (IF price > bands.upper THEN 1 ELSE 0),
                 lower_crosses |-> stats.lower_crosses
                                   + (IF price < bands.lower THEN 1 ELSE 0),
                 total_minutes |-> stats.total_minutes + 1]
    /\ LET trend_up == TrendUp(price, bands)
       IN  IF price < bands.lower /\ trend_up /\ current_position = None
           THEN LET shares == IntDiv(capital * 1, 10 * price)
                    position_cost == shares * price
                IN  /\ IF capital - position_cost >= min_cash_buffer
                       THEN /\ current_position' =
                                 <<[entry_date |-> now + 1, entry_price |-> price,
                                    shares |-> shares, cost |-> position_cost]>>
                            /\ capital' = capital - position_cost
                            /\ call' = [op |-> "execute_buy", price |-> price,
                                        ret |-> TRUE]
                       ELSE /\ call' = [op |-> "execute_buy", price |-> price,
                                        ret |-> FALSE]
                            /\ UNCHANGED <<capital, current_position>>
                    /\ UNCHANGED <<trades, points_tally, successful_trades,
                                   failed_trades, scored>>
           ELSE IF price > bands.upper /\ ~trend_up /\ current_position # None
           THEN LET position == current_position[1]
                    position_value == position.shares * price
                    profit == position_value - position.cost
                    price_change_ratio == [num |-> price, den |-> position.entry_price]
                    points == BbPoints(price, position.entry_price,
                                       price_change_ratio, time_delta)
                IN  /\ successful_trades' = IF price > position.entry_price
                                            THEN successful_trades + 1
                                            ELSE successful_trades
                    /\ failed_trades' = IF price > position.entry_price
                                        THEN failed_trades
                                        ELSE failed_trades + 1
                    /\ points_tally' = points_tally + points
                    /\ capital' = capital + position_value
                    /\ trades' = Append(trades,
                           [entry_date |-> position.entry_date,
                            exit_date |-> now + 1,
                            entry_price |-> position.entry_price,
                            exit_price |-> price,
                            shares |-> position.shares,
                            profit |-> profit,
                            points |-> points,
                            ratio |-> price_change_ratio,
                            time_delta |-> time_delta])
                    /\ scored' = [ratio |-> price_change_ratio,
                                  time_delta |-> time_delta, points |-> points]
                    /\ current_position' = None
                    /\ call' = [op |-> "execute_sell", price |-> price, ret |-> TRUE]
           ELSE /\ call' = NoCall
                /\ UNCHANGED <<capital, current_position, trades, points_tally,
                               successful_trades, failed_trades, scored>>
    /\ UNCHANGED <<prog, mongo, indicator, batch, replay, pc, initial_capital, min_cash_buffer, max_position_pct,
                   time_delta, signal, current_day, last_price, day, increments,
                   bands, result>>

\* time_delta += 0.01
BbStep(td) == td + TimeDeltaStep

\* After the day's last bar: increment time_delta at end of day.
BbEndDay ==
    /\ prog = "bbands"
    /\ pc = "bars"
    /\ row.date = day
    /\ time_delta' = BbStep(time_delta)
    /\ increments' = increments + 1
    /\ pc' = "days"
    /\ UNCHANGED <<prog, mongo, indicator, batch, replay, initial_capital, min_cash_buffer, max_position_pct,
                   capital, trades, current_position, points_tally,
                   successful_trades, failed_trades, signal, current_day,
                   last_price, day, now, row, call, scored, bands, stats, result>>

\* After the loop: None when no minute was analysed, else the result record.
\* final_price is the Close of the last bar of minute_data: the last bar
\* processed, or any price when the last day was skipped.
BbFinish(final_price) ==
    /\ prog = "bbands"
    /\ pc = "days"
    /\ day > 0
    /\ final_price = row.Close \/ bands.valid = FALSE
    /\ last_price' = final_price
    /\ IF stats.total_minutes = 0
       THEN result' = None
       ELSE LET portfolio_value ==
                    IF current_position # None
                    THEN capital + current_position[1].shares * final_price
                    ELSE capital
            IN  result' = <<[portfolio_value |-> portfolio_value,
                             total_return |-> [num |-> (portfolio_value
                                                        - initial_capital) * 100,
                                               den |-> initial_capital],
                             points |-> points_tally,
                             trades |-> Len(trades),
                             successful_trades |-> successful_trades,
                             failed_trades |-> failed_trades,
                             open_position |-> current_position # None,
                             bbands_stats |-> stats]>>
    /\ pc' = "done"
    /\ UNCHANGED <<prog, mongo, indicator, batch, replay, initial_capital, min_cash_buffer, max_position_pct,
                   capital, trades, current_position, time_delta, points_tally,
                   successful_trades, failed_trades, signal, current_day, day,
                   now, row, call, scored, increments, bands, stats>>

----------------------------------------------------------------------------
(* test_rsi.py: analyze_rsi, one step per loop iteration.  indicator holds   *)
(* the entry of the daily RSI series that asof gives the bars of the day.    *)

\* talib.RSI of a day: not a number, or below 30, between the marks, above 70.
RsiValues == {[nan |-> TRUE, value |-> 0], [nan |-> FALSE, value |-> 25],
              [nan |-> FALSE, value |-> 50], [nan |-> FALSE, value |-> 75]}

\* The Close of a minute bar of analyze_rsi; the file's values are not checked.
RsiPrices == {100, 110, -100}

\* for day, day_data in daily_groups
RsiBeginDay(rsi) ==
    /\ prog = "rsi"
    /\ pc = "days"
    /\ now < MaxBars
    /\ day < MaxBars
    /\ day' = day + 1
    /\ indicator' = <<[date |-> day + 1, nan |-> rsi.nan, value |-> rsi.value]>>
    /\ pc' = "bars"
    /\ UNCHANGED <<prog, mongo, batch, replay, initial_capital, min_cash_buffer,
                   max_position_pct, capital, trades, current_position,
                   time_delta, points_tally, successful_trades, failed_trades,
                   signal, current_day, last_price, now, row, call, scored,
                   increments, bands, stats, result>>

\* Mutant of RsiIsNa: no value is taken for missing.
RsiIsNa_Never(entry) == FALSE

\* pd.isna(row['RSI'])
RsiIsNa(entry) == entry.nan

\* for timestamp, row in day_data.iterrows()
RsiRow(price) ==
    /\ prog = "rsi"
    /\ pc = "bars"
    /\ now < MaxBars
    /\ now' = now + 1
    /\ LET rsi == Asof(indicator, day)
       IN  /\ row' = [date |-> day, ts |-> now + 1, Close |-> price,
                       nan |-> rsi.nan, ema |-> rsi.value, src |-> rsi.date]
           /\ IF RsiIsNa(rsi)
              THEN /\ call' = NoCall
                   /\ UNCHANGED <<capital, current_position, trades, points_tally,
                                  successful_trades, failed_trades, scored>>
              ELSE IF rsi.value < 30 /\ current_position = None
              THEN LET shares == IntDiv(capital * 1, 10 * price)
                       position_cost == shares * price
                   IN  /\ IF capital - position_cost >= min_cash_buffer
                          THEN /\ current_position' =
                                    <<[entry_date |-> now + 1, entry_price |-> price,
                                       shares |-> shares, cost |-> position_cost]>>
                               /\ capital' = capital - position_cost
                               /\ call' = [op |-> "execute_buy", price |-> price,
                                           ret |-> TRUE]
                          ELSE /\ call' = [op |-> "execute_buy", price |-> price,
                                           ret |-> FALSE]
                               /\ UNCHANGED <<capital, current_position>>
                       /\ UNCHANGED <<trades, points_tally, successful_trades,
                                      failed_trades, scored>>
              ELSE IF rsi.value > 70 /\ current_position # None
              THEN LET position == current_position[1]
                       position_value == position.shares * price
                       profit == position_value - position.cost
                       price_change_ratio ==
                           [num |-> price, den |-> position.entry_price]
                       points == BbPoints(price, position.entry_price,
                                          price_change_ratio, time_delta)
                   IN  /\ successful_trades' = IF price > position.entry_price
                                               THEN successful_trades + 1
                                               ELSE successful_trades
                       /\ failed_trades' = IF price > position.entry_price
                                           THEN failed_trades
                                           ELSE failed_trades + 1
                       /\ points_tally' = points_tally + points
                       /\ capital' = capital + position_value
                       /\ trades' = Append(trades,
                              [entry_date |-> position.entry_date,
                               exit_date |-> now + 1,
                               entry_price |-> position.entry_price,
                               exit_price |-> price,
                               shares |-> position.shares,
                               profit |-> profit,
                               points |-> points,
                               ratio |-> price_change_ratio,
                               time_delta |-> time_delta])
                       /\ scored' = [ratio |-> price_change_ratio,
                                     time_delta |-> time_delta, points |-> points]
                       /\ current_position' = None
                       /\ call' = [op |-> "execute_sell", price |-> price,
                                   ret |-> TRUE]
              ELSE /\ call' = NoCall
                   /\ UNCHANGED <<capital, current_position, trades, points_tally,
                                  successful_trades, failed_trades, scored>>
    /\ UNCHANGED <<prog, mongo, indicator, batch, replay, pc, initial_capital,
                   min_cash_buffer, max_position_pct, time_delta, signal,
                   current_day, last_price, day, increments, bands, stats, result>>

\* After the day's last bar: time_delta += 0.01
RsiEndDay ==
    /\ prog = "rsi"
    /\ pc = "bars"
    /\ row.date = day
    /\ time_delta' = BbStep(time_delta)
    /\ increments' = increments + 1
    /\ pc' = "days"
    /\ UNCHANGED <<prog, mongo, indicator, batch, replay, initial_capital,
                   min_cash_buffer, max_position_pct, capital, trades,
                   current_position, points_tally, successful_trades,
                   failed_trades, signal, current_day, last_price, day, now, row,
                   call, scored, bands, stats, result>>

\* After the loop: the result record; final_price is the Close of the last
\* bar.  rsi_stats, which the loop does not touch, is left out.
RsiFinish ==
    /\ prog = "rsi"
    /\ pc = "days"
    /\ day > 0
    /\ last_price' = row.Close
    /\ LET portfolio_value ==
               IF current_position # None
               THEN capital + current_position[1].shares * row.Close
               ELSE capital
       IN  result' = <<[portfolio_value |-> portfolio_value,
                        total_return |-> [num |-> (portfolio_value
                                                   - initial_capital) * 100,
                                          den |-> initial_capital],
                        points |-> points_tally,
                        trades |-> Len(trades),
                        successful_trades |-> successful_trades,
                        failed_trades |-> failed_trades,
                        open_position |-> current_position # None]>>
    /\ pc' = "done"
    /\ UNCHANGED <<prog, mongo, indicator, batch, replay, initial_capital,
                   min_cash_buffer, max_position_pct, capital, trades,
                   current_position, time_delta, points_tally, successful_trades,
                   failed_trades, signal, current_day, day, now, row, call,
                   scored, increments, bands, stats>>

----------------------------------------------------------------------------
(* update_scores.py: update_strategy_scores, one step per statement that can *)
(* fail.  Of a document only strategy and total_points are kept.             *)

\* strategy_scores_unified.json: unreadable, or a dictionary given as the list
\* of its items; an item's record may lack the key total_points.
Unreadable == [readable |-> FALSE, items |-> <<>>]
ScoreItems ==
    {<<>>,
     <<[strategy |-> "A", has_points |-> TRUE, total_points |-> 3]>>,
     <<[strategy |-> "A", has_points |-> TRUE, total_points |-> 3],
       [strategy |-> "B", has_points |-> TRUE, total_points |-> -1]>>,
     <<[strategy |-> "A", has_points |-> TRUE, total_points |-> 3],
       [strategy |-> "B", has_points |-> FALSE, total_points |-> 0]>>}
ScoreFiles ==
    {Unreadable} \cup {[readable |-> TRUE, items |-> items] : items \in ScoreItems}

\* db.points_tally before the call.
Collections == {{}, {[strategy |-> "OLD", total_points |-> 7]}}

NoMongo == [file |-> Unreadable, before |-> {}, points_tally |-> {}, client |-> FALSE,
            backtest |-> <<>>, new_docs |-> <<>>, caught |-> FALSE]

\* The documents of the items 1..k of a list of items.
Docs(items, k) ==
    {[strategy |-> items[i].strategy, total_points |-> items[i].total_points] :
         i \in 1..k}

\* with open(...) as f: backtest = json.load(f)
UpdateLoad ==
    /\ prog = "update"
    /\ pc = "load"
    /\ IF mongo.file = Unreadable
       THEN /\ pc' = "except"
            /\ mongo' = mongo
       ELSE /\ pc' = "connect"
            /\ mongo' = [mongo EXCEPT !.backtest = mongo.file.items]
    /\ UNCHANGED <<prog, indicator, batch, replay, initial_capital,
                   min_cash_buffer, max_position_pct, capital, trades,
                   current_position, time_delta, points_tally, successful_trades,
                   failed_trades, signal, current_day, last_price, day, now, row,
                   call, scored, increments, bands, stats, result>>

\* client = MongoClient(mongo_url), which raises or binds client.
UpdateConnect(fails) ==
    /\ prog = "update"
    /\ pc = "connect"
    /\ IF fails
       THEN /\ pc' = "except"
            /\ mongo' = mongo
       ELSE /\ pc' = "delete"
            /\ mongo' = [mongo EXCEPT !.client = TRUE]
    /\ UNCHANGED <<prog, indicator, batch, replay, initial_capital,
                   min_cash_buffer, max_position_pct, capital, trades,
                   current_position, time_delta, points_tally, successful_trades,
                   failed_trades, signal, current_day, last_price, day, now, row,
                   call, scored, increments, bands, stats, result>>

\* points_tally.delete_many({}), which raises or empties the collection.
UpdateDelete(fails) ==
    /\ prog = "update"
    /\ pc = "delete"
    /\ IF fails
       THEN /\ pc' = "except"
            /\ mongo' = mongo
       ELSE /\ pc' = "prepare"
            /\ mongo' = [mongo EXCEPT !.points_tally = {}]
    /\ UNCHANGED <<prog, indicator, batch, replay, initial_capital,
                   min_cash_buffer, max_position_pct, capital, trades,
                   current_position, time_delta, points_tally, successful_trades,
                   failed_trades, signal, current_day, last_price, day, now, row,
                   call, scored, increments, bands, stats, result>>

\* new_docs = [...]: data['total_points'] raises KeyError on an item without it.
UpdatePrepare ==
    /\ prog = "update"
    /\ pc = "prepare"
    /\ IF \E i \in DOMAIN mongo.backtest : ~mongo.backtest[i].has_points
       THEN /\ pc' = "except"
            /\ mongo' = mongo
       ELSE /\ pc' = "insert"
            /\ mongo' = [mongo EXCEPT !.new_docs = mongo.backtest]
    /\ UNCHANGED <<prog, indicator, batch, replay, initial_capital,
                   min_cash_buffer, max_position_pct, capital, trades,
                   current_position, time_delta, points_tally, successful_trades,
                   failed_trades, signal, current_day, last_price, day, now, row,
                   call, scored, increments, bands, stats, result>>

\* points_tally.insert_many(new_docs): an empty list raises InvalidOperation;
\* a failing insert has written the k documents before the one that failed.
UpdateInsert(fails, k) ==
    /\ prog = "update"
    /\ pc = "insert"
    /\ IF mongo.new_docs = <<>>
       THEN /\ pc' = "except"
            /\ mongo' = mongo
       ELSE IF fails
       THEN /\ k < Len(mongo.new_docs)
            /\ pc' = "except"
            /\ mongo' = [mongo EXCEPT !.points_tally = Docs(mongo.new_docs, k)]
       ELSE /\ k = Len(mongo.new_docs)
            /\ pc' = "finally"
            /\ mongo' = [mongo EXCEPT !.points_tally = Docs(mongo.new_docs, k)]
    /\ UNCHANGED <<prog, indicator, batch, replay, initial_capital,
                   min_cash_buffer, max_position_pct, capital, trades,
                   current_position, time_delta, points_tally, successful_trades,
                   failed_trades, signal, current_day, last_price, day, now, row,
                   call, scored, increments, bands, stats, result>>

\* except Exception as e: print(...)
UpdateExcept ==
    /\ prog = "update"
    /\ pc = "except"
    /\ pc' = "finally"
    /\ mongo' = [mongo EXCEPT !.caught = TRUE]
    /\ UNCHANGED <<prog, indicator, batch, replay, initial_capital,
                   min_cash_buffer, max_position_pct, capital, trades,
                   current_position, time_delta, points_tally, successful_trades,
                   failed_trades, signal, current_day, last_price, day, now, row,
                   call, scored, increments, bands, stats, result>>

\* finally: client.close(); the name client is unbound when the failure came
\* before its assignment, and the UnboundLocalError leaves the function.
UpdateFinally ==
    /\ prog = "update"
    /\ pc = "finally"
    /\ pc' = IF mongo.client THEN "done" ELSE "raised"
    /\ UNCHANGED <<prog, mongo, indicator, batch, replay, initial_capital,
                   min_cash_buffer, max_position_pct, capital, trades,
                   current_position, time_delta, points_tally, successful_trades,
                   failed_trades, signal, current_day, last_price, day, now, row,
                   call, scored, increments, bands, stats, result>>

----------------------------------------------------------------------------
(* The state after construction. *)

Progs == {"run", "e2e", "rerun", "api", "run_backtest", "rerun_bt", "scorer",
          "bbands", "rsi", "batch", "update"}

\* Backtester.__init__ and reset (backtester.py); the fields of the other
\* entry points start the same way.
Init ==
    /\ prog \in Progs
    /\ pc = IF prog = "run" THEN "start"
            ELSE IF prog \in {"e2e", "rerun", "bbands", "rsi"} THEN "days"
            ELSE IF prog = "batch" THEN "pool"
            ELSE IF prog = "update" THEN "load"
            ELSE "bars"
    /\ initial_capital \in IF prog \in {"scorer", "e2e", "rerun", "rerun_bt", "batch",
                                        "rsi", "update"}
                           THEN {DefaultInitialCapital}
                           ELSE InitialCapitals
    /\ min_cash_buffer = DefaultMinCashBuffer
    /\ max_position_pct = DefaultMaxPositionPct
    /\ capital = initial_capital
    /\ trades = <<>>
    /\ current_position = None
    /\ time_delta = InitialTimeDelta
    /\ points_tally = 0
    /\ successful_trades = 0
    /\ failed_trades = 0
    /\ signal = "Hold"
    /\ current_day = 0
    /\ last_price = 0
    /\ day = 0
    /\ now = 0
    /\ row = NoRow
    /\ call = NoCall
    /\ scored = NoScore
    /\ increments = 0
    /\ bands = NoBands
    /\ stats = NoStats
    /\ indicator \in IF prog = "run_backtest" THEN IndicatorSeries
                     ELSE IF prog = "rerun_bt"
                     THEN {series \in IndicatorSeries : ~series[1].nan}
                     ELSE {<<>>}
    /\ replay = NoReplay
    /\ batch \in IF prog = "batch"
                 THEN {[NoBatch EXCEPT
                            !.data = data,
                            !.wpc = [s \in Symbols |-> "queued"],
                            !.inst = [s \in Symbols |-> None],
                            !.ret = [s \in Symbols |-> None]] :
                       data \in [Symbols -> SymbolRuns]}
                 ELSE {NoBatch}
    /\ mongo \in IF prog = "update"
                 THEN {[NoMongo EXCEPT !.file = file, !.before = before,
                                       !.points_tally = before] :
                       file \in ScoreFiles, before \in Collections}
                 ELSE {NoMongo}
    /\ result = None

Next ==
    \/ \E sig \in Signals : RunBeginDay(sig)
    \/ \E price \in RunPrices \cup {108} : RunBar(price)
    \/ RunAgain
    \/ RunEndDay
    \/ RunFinish
    \/ \E price \in Prices : ApiExecuteBuy(price)
    \/ \E price \in Prices \cup {HighPrice} : ApiExecuteSell(price)
    \/ \E price \in Prices : ApiGetPortfolioValue(price)
    \/ RunGetResults
    \/ \E new_day \in BOOLEAN, price \in Prices, nan \in BOOLEAN, sig \in Signals :
           BtBar(new_day, price, nan, sig)
    \/ BtFinish
    \/ BtAgain
    \/ \E present \in BOOLEAN, valid \in BOOLEAN, b \in BandValues :
           BbBeginDay(present, valid, b)
    \/ \E price \in Prices : BbRow(price)
    \/ BbEndDay
    \/ \E price \in Prices : BbFinish(price)
    \/ \E ratio \in Ratios : ScorerCalculatePoints(ratio)
    \/ ScorerIncrementDay
    \/ \E portfolio_value \in ScorePortfolios, tally \in ScoreTallies :
           ScorerCalculateStrategyScore(portfolio_value, tally)
    \/ \E name \in StrategyNames, n \in DailyLengths : RunLoadData(name, n)
    \/ RunPrepareData
    \/ \E rsi \in RsiValues : RsiBeginDay(rsi)
    \/ \E price \in RsiPrices : RsiRow(price)
    \/ RsiEndDay
    \/ RsiFinish
    \/ UpdateLoad
    \/ \E fails \in BOOLEAN : UpdateConnect(fails)
    \/ \E fails \in BOOLEAN : UpdateDelete(fails)
    \/ UpdatePrepare
    \/ \E fails \in BOOLEAN, k \in 0..2 : UpdateInsert(fails, k)
    \/ UpdateExcept
    \/ UpdateFinally
    \/ \E s \in Symbols : BatchCreate(s)
    \/ \E s \in Symbols : BatchRun(s)
    \/ \E s \in Symbols : BatchReturn(s)
    \/ MainCollect

Spec == Init /\ [][Next]_vars

\* The loops of Backtester.run and run_backtest alone, under the fairness of a
\* sequential program: a for loop over a finite frame takes its next step.
LoopProgs == {"run", "rerun", "run_backtest", "rerun_bt"}

LoopInit ==
    /\ Init
    /\ prog \in LoopProgs
    /\ initial_capital = DefaultInitialCapital

LoopNext ==
    \/ \E name \in StrategyNames, n \in DailyLengths : RunLoadData(name, n)
    \/ RunPrepareData
    \/ \E sig \in Signals : RunBeginDay(sig)
    \/ \E price \in RerunPrices \cup {0} : RunBar(price)
    \/ RunEndDay
    \/ RunFinish
    \/ RunAgain
    \/ \E new_day \in BOOLEAN, price \in RerunPrices, nan \in BOOLEAN,
          sig \in Signals :
           BtBar(new_day, price, nan, sig)
    \/ BtFinish
    \/ BtAgain

LoopSpec == LoopInit /\ [][LoopNext]_vars /\ WF_vars(LoopNext)

----------------------------------------------------------------------------
(* Properties. *)

\* A step that consumes a bar or makes one direct call.
BarStep == now' = now + 1

Last(seq) == seq[Len(seq)]

\* C1: in Backtester.run and run_backtest a position is opened only from Flat,
\* an open position is never replaced by another one, and a bar whose signal
\* is Buy, met while a position is open, leaves the position and capital as
\* they are.
C1_SinglePosition ==
    [][(prog \in {"run", "run_backtest"} /\ BarStep /\ current_position # None)
       => /\ current_position' \in {None, current_position}
          /\ ~(call'.op = "execute_buy" /\ call'.ret)
          /\ (signal' = "Buy"
              => current_position' = current_position /\ capital' = capital)]_vars

\* A bar with signal Buy was processed while a position, opened at an earlier
\* bar, was open.
C1_Witness ==
    /\ prog \in {"run", "run_backtest"}
    /\ signal = "Buy"
    /\ row.ts = now
    /\ ~row.nan
    /\ current_position # None
    /\ current_position[1].entry_date < row.ts

\* C2: a buy that succeeds leaves capital >= min_cash_buffer; a buy with
\* capital - shares * price < min_cash_buffer is refused and leaves capital
\* and current_position unchanged.
C2_CashBuffer ==
    [][(BarStep /\ call'.op = "execute_buy" /\ call'.price # 0)
       => LET shares == IntDiv(capital * max_position_pct.num,
                               max_position_pct.den * call'.price)
          IN  /\ call'.ret => (capital' >= min_cash_buffer /\ current_position' # None)
              /\ capital - shares * call'.price < min_cash_buffer
                 => /\ ~call'.ret
                    /\ capital' = capital
                    /\ current_position' = current_position]_vars

\* A buy was refused for the buffer after an earlier buy had succeeded and
\* left capital exactly at the buffer.
C2_Witness ==
    /\ call.op = "execute_buy"
    /\ ~call.ret
    /\ current_position # None
    /\ current_position[1].shares >= 1
    /\ capital = min_cash_buffer

\* C3: a buy whose computed share count is zero (price > capital *
\* max_position_pct) is refused, leaving capital and the state as they were;
\* so every open position and every recorded trade has shares >= 1.
C3_ZeroShareBuyRefused ==
    /\ current_position # None => current_position[1].shares >= 1
    /\ \A i \in DOMAIN trades : trades[i].shares >= 1
    /\ (call.op = "execute_buy" /\ call.ret /\ current_position # None)
       => current_position[1].shares # 0

\* The schedule as the specification's table states it, in halves.
TableMultiplier(ratio) ==
    IF RatioGT(ratio, 1100) THEN 4
    ELSE IF RatioGT(ratio, 1050) THEN 3
    ELSE IF RatioGT(ratio, 1000) THEN 2
    ELSE IF RatioGT(ratio, 975) THEN -2
    ELSE IF RatioGT(ratio, 950) THEN -3
    ELSE -4

\* The schedule with the gain boundaries in the upper band, in halves.
HalfOpenMultiplier(ratio) ==
    IF ~RatioLT(ratio, 1100) THEN 4
    ELSE IF ~RatioLT(ratio, 1050) THEN 3
    ELSE IF RatioGT(ratio, 1000) THEN 2
    ELSE IF RatioGT(ratio, 975) THEN -2
    ELSE IF RatioGT(ratio, 950) THEN -3
    ELSE -4

InlineProgs == {"bbands", "rsi"}

C5_PureScoring ==
    [][(prog = "scorer" /\ scored' # scored)
       => /\ scored'.time_delta = time_delta
          /\ scored'.points = get_expected_multiplier(scored'.ratio) * time_delta
          /\ (time_delta = 100
              => /\ scored'.ratio = PerMille(1030) => scored'.points = 200
                 /\ scored'.ratio = PerMille(1070) => scored'.points = 300
                 /\ scored'.ratio = PerMille(1150) => scored'.points = 400
                 /\ scored'.ratio = PerMille(980) => scored'.points = -200
                 /\ scored'.ratio = PerMille(960) => scored'.points = -300
                 /\ scored'.ratio = PerMille(930) => scored'.points = -400)
          /\ UNCHANGED <<prog, mongo, indicator, batch, replay, pc, initial_capital, min_cash_buffer,
                         max_position_pct, capital, trades, current_position,
                         time_delta, points_tally, successful_trades,
                         failed_trades, signal, current_day, last_price, day,
                         now, row, call, increments, bands, stats, result>>]_vars

\* calculate_points(0.93) was called at time_delta 1.00 and gave -2.0.
C5_Witness ==
    /\ prog = "scorer"
    /\ scored.ratio = PerMille(930)
    /\ scored.time_delta = 100
    /\ scored.points = -400
    /\ time_delta = 100

\* A step at a boundary between two calendar days: the series moves to its
\* next day, a day's loop body ends, or the scorer is told that a day passed.
DayBoundary ==
    \/ day' = day + 1
    \/ pc = "bars" /\ pc' = "days"
    \/ prog = "scorer" /\ increments' = increments + 1

\* C6: within a run time_delta starts at 1.0, never decreases, has one value for all bars
\* of a calendar day, changes only by +0.01 and only at a boundary between
\* two calendar days; after n increments it is 1.0 + 0.01 * n, and the points
\* of a fixed ratio grow by multiplier * 0.01 per day.
C6_TimeDeltaSteps ==
    /\ [](/\ time_delta = 100 + 1 * increments
          /\ \A ratio \in Ratios :
                 Scorer_calculate_points(ratio, increment_day(time_delta))
                     - Scorer_calculate_points(ratio, time_delta)
                 = get_expected_multiplier(ratio) * 1)
    /\ [][/\ (time_delta' # time_delta /\ pc # "done")
             => time_delta' = time_delta + 1 /\ DayBoundary
          /\ (BarStep /\ row'.date = row.date) => time_delta' = time_delta]_vars

\* run_backtest has processed a bar of the second calendar day, after two
\* steps of time_delta.
C6_Witness ==
    /\ prog = "run_backtest"
    /\ row.date = 2
    /\ row.ts = now
    /\ increments = 2
    /\ time_delta = 102

\* C7: the bars of the k-th calendar day of the run are processed with
\* time_delta = 1.0 + 0.01 * k: the day's increment comes before its bars.
C7_IncrementBeforeBars ==
    (prog \in {"run", "run_backtest"} /\ pc = "bars" /\ now > 0 /\ row.ts = now
     /\ row.date = day)
    => time_delta = 100 + 1 * row.date

\* C8: when a run returns its result, time_delta has been incremented once
\* for every distinct calendar day of the price series, skipped days included:
\* over n days the total increase is n * 0.01.
C8_OneIncrementPerDay ==
    (prog \in {"run", "run_backtest", "bbands"} /\ pc = "done" /\ result # None)
    => (increments = day /\ time_delta = 100 + 1 * day)

\* C9: a sell with a position open closes all of it: the appended trade has
\* the position's shares, capital grows by shares * exit price and the position
\* becomes none; a sell with no position returns False and changes nothing.
C9_SellClosesWholePosition ==
    [][(BarStep /\ call'.op = "execute_sell")
       => IF current_position # None
          THEN /\ call'.ret
               /\ Len(trades') = Len(trades) + 1
               /\ SubSeq(trades', 1, Len(trades)) = trades
               /\ Last(trades').shares = current_position[1].shares
               /\ Last(trades').exit_price = call'.price
               /\ capital' = capital + current_position[1].shares * call'.price
               /\ current_position' = None
          ELSE /\ ~call'.ret
               /\ UNCHANGED <<capital, current_position, trades, points_tally,
                              successful_trades, failed_trades, time_delta,
                              scored>>]_vars

\* A sell has closed a position of at least one share at a price other than
\* its entry price.
C9_Witness ==
    /\ call.op = "execute_sell"
    /\ call.ret
    /\ current_position = None
    /\ trades # <<>>
    /\ Last(trades).shares >= 1
    /\ Last(trades).exit_price # Last(trades).entry_price
    /\ Last(trades).exit_date = now

\* C10: a buy that succeeds at a price > 0 takes shares = floor(capital *
\* max_position_pct / price): cost = shares * price <= capital *
\* max_position_pct < (shares + 1) * price, and capital decreases by cost.
C10_BuySizing ==
    [][(BarStep /\ call'.op = "execute_buy" /\ call'.ret /\ call'.price > 0)
       => LET position == current_position'[1]
              price == call'.price
              num == max_position_pct.num
              den == max_position_pct.den
          IN  /\ current_position' # None
              /\ position.entry_price = price
              /\ position.shares = (capital * num) \div (den * price)
              /\ position.cost = position.shares * price
              /\ position.cost * den <= capital * num
              /\ (position.shares + 1) * price * den > capital * num
              /\ capital' = capital - position.cost]_vars

\* A buy at 105 with capital 16600 took 15 shares for 1575: the quotient
\* 1660 / 105 is not a whole number.
C10_Witness ==
    /\ call.op = "execute_buy"
    /\ call.ret
    /\ call.price = 105
    /\ current_position # None
    /\ current_position[1].shares = 15
    /\ current_position[1].cost = 1575
    /\ capital = 16600 - 1575


\* The fields a bar of the simulation loop may change.
Ledger == <<capital, current_position, trades, points_tally, successful_trades,
            failed_trades>>

\* C11: in the simulation loop the ledger fields change only when a Buy opens
\* a position from Flat or a Sell closes the open one: a Hold bar, a Sell
\* while Flat, a refused Buy while Flat and a Buy or Hold while InPosition
\* leave capital, current_position, the trades, points_tally and the win and
\* loss counters unchanged.
C11_OnlyTwoTransitions ==
    [][(prog \in {"run", "run_backtest"} /\ pc' # "done")
       => /\ Ledger' # Ledger
             => /\ BarStep
                /\ \/ /\ current_position = None /\ current_position' # None
                      /\ signal' = "Buy" /\ call'.op = "execute_buy" /\ call'.ret
                      /\ trades' = trades
                   \/ /\ current_position # None /\ current_position' = None
                      /\ signal' = "Sell" /\ call'.op = "execute_sell" /\ call'.ret
          /\ (BarStep /\ signal' = "Hold") => Ledger' = Ledger
          /\ (BarStep /\ signal' = "Sell" /\ current_position = None)
             => Ledger' = Ledger
          /\ (BarStep /\ call'.op = "execute_buy" /\ ~call'.ret)
             => Ledger' = Ledger
          /\ (BarStep /\ signal' = "Buy" /\ current_position # None)
             => Ledger' = Ledger]_vars

\* Backtester.run has processed a Hold bar with a position open, after an
\* earlier day's Buy.
C11_Witness ==
    /\ prog = "run"
    /\ signal = "Hold"
    /\ row.ts = now
    /\ row.date = day
    /\ call = NoCall
    /\ current_position # None
    /\ current_position[1].shares >= 1
    /\ current_position[1].entry_date < row.ts


\* The points field of a result record: points in backtester.py, total_points
\* in backtest.py.
ResultPoints(r) == IF prog = "run_backtest" THEN r.total_points ELSE r.points

\* The trade count of a result record.
ResultTrades(r) == IF prog = "run_backtest" THEN r.total_trades ELSE r.trades

\* The step that ends a run with a result record.
FinishStep == pc # "done" /\ pc' = "done" /\ result' # None

\* C12: a position still open when the bars are exhausted is scored but not
\* closed: the run ends with the position in place and open_position true, the
\* trades, their count, the win and loss counters and capital are unchanged by
\* the end-of-run scoring, and the unrealized points are the schedule's
\* multiplier for last price / entry price times time_delta.
C12_OpenPositionScoredNotClosed ==
    [][(prog \in {"run", "run_backtest"} /\ FinishStep /\ current_position # None)
       => /\ current_position' = current_position
          /\ result'[1].open_position
          /\ UNCHANGED <<trades, successful_trades, failed_trades, capital>>
          /\ ResultTrades(result'[1]) = Len(trades)
          /\ result'[1].successful_trades
               = Cardinality({i \in DOMAIN trades : trades[i].profit > 0})
          /\ result'[1].failed_trades
               = Cardinality({i \in DOMAIN trades : trades[i].profit <= 0})
          /\ ResultPoints(result'[1]) - SumPoints(trades)
               = HalfOpenMultiplier([num |-> row.Close,
                                     den |-> current_position[1].entry_price])
                 * time_delta]_vars

\* run_backtest has ended with one closed trade and a position still open
\* whose last price is above its entry price.
C12_Witness ==
    /\ prog = "run_backtest"
    /\ pc = "done"
    /\ result # None
    /\ result[1].open_position
    /\ current_position # None
    /\ current_position[1].shares >= 1
    /\ row.Close > current_position[1].entry_price
    /\ Len(trades) = 1


\* The points of the position open at the end of a run, 0 when there is none.
OpenPoints ==
    IF current_position = None THEN 0
    ELSE HalfOpenMultiplier([num |-> row.Close,
                             den |-> current_position[1].entry_price])
         * time_delta

\* C13: the points of the result record of Backtester.run and of run_backtest
\* are the sum of the points of the trades plus the points of the position
\* open at the end of the run; during the run points_tally is the sum of the
\* points of the trades recorded so far.
C13_PointsAreSumOfTrades ==
    /\ (prog \in {"run", "api"} /\ pc # "done")
       => points_tally = SumPoints(trades)
    /\ (prog \in {"run", "run_backtest"} /\ pc = "done" /\ result # None)
       => ResultPoints(result[1]) = SumPoints(trades) + OpenPoints

\* Backtester.run has ended with two closed trades of different points.
C13_Witness ==
    /\ prog = "run"
    /\ pc = "done"
    /\ result # None
    /\ Len(trades) = 2
    /\ trades[1].points # trades[2].points
    /\ trades[1].points # 0
    /\ result[1].points = points_tally


\* The number of trades of a ledger with a profit, and with none.
Wins(ledger) == Cardinality({i \in DOMAIN ledger : ledger[i].profit > 0})
Losses(ledger) == Cardinality({i \in DOMAIN ledger : ~(ledger[i].profit > 0)})

\* C14: in every reachable state successful_trades is the number of trades
\* with profit > 0, failed_trades the number with profit <= 0, a break-even
\* trade being a failed one, and the two add up to the number of trades; the
\* result record of run_backtest carries the same counts, and its win_rate is
\* 0 when there are no trades.
C14_WinLossCounters ==
    /\ prog \in {"run", "api"}
       => /\ successful_trades = Wins(trades)
          /\ failed_trades = Losses(trades)
          /\ successful_trades + failed_trades = Len(trades)
    /\ (prog = "run" /\ pc = "done" /\ result # None)
       => /\ result[1].successful_trades = Wins(trades)
          /\ result[1].failed_trades = Losses(trades)
          /\ result[1].trades = Len(trades)
    /\ (prog = "run_backtest" /\ pc = "done" /\ result # None)
       => /\ result[1].successful_trades = Wins(trades)
          /\ result[1].failed_trades = Losses(trades)
          /\ result[1].successful_trades + result[1].failed_trades
               = result[1].total_trades
          /\ result[1].total_trades = Len(trades)
          /\ trades = <<>> => result[1].win_rate.num = 0

\* A break-even trade of at least one share has been counted as failed, next
\* to a winning one.
C14_Witness ==
    /\ prog = "run"
    /\ Len(trades) = 2
    /\ \E i \in DOMAIN trades : trades[i].profit = 0 /\ trades[i].shares >= 1
    /\ successful_trades = 1
    /\ failed_trades = 1


\* C15: get_portfolio_value(p) returns capital + shares * p with a position
\* open and capital without one; computing it, or get_results, changes neither
\* capital nor the position nor the trades, so that a repeated call returns
\* the same value.
C15_PortfolioValuePure ==
    [][/\ (call' # call /\ call'.op = "get_portfolio_value")
          => /\ call'.ret = IF current_position # None
                            THEN capital + current_position[1].shares * call'.price
                            ELSE capital
             /\ UNCHANGED <<capital, current_position, trades>>
             /\ get_portfolio_value(capital', current_position', call'.price)
                  = call'.ret
       /\ (call' # call /\ call'.op = "get_results")
          => /\ UNCHANGED <<capital, current_position, trades>>
             /\ result' = result
             /\ result'[1].portfolio_value
                  = IF current_position # None
                    THEN capital + current_position[1].shares * last_price
                    ELSE capital
       /\ (prog = "run" /\ FinishStep)
          => UNCHANGED <<capital, current_position, trades>>]_vars

\* get_portfolio_value has been called at a price other than the entry price
\* of the open position.
C15_Witness ==
    /\ prog = "api"
    /\ call.op = "get_portfolio_value"
    /\ current_position # None
    /\ current_position[1].shares >= 1
    /\ call.price # current_position[1].entry_price
    /\ call.ret = capital + current_position[1].shares * call.price
    /\ trades # <<>>


\* Every price the ledger records and the price of the last bar are > 0.
PricesPositive ==
    /\ row.ts > 0 => row.Close > 0
    /\ current_position # None => current_position[1].entry_price > 0
    /\ \A i \in DOMAIN trades :
           trades[i].entry_price > 0 /\ trades[i].exit_price > 0

\* C16: as long as every price is > 0, capital >= 0 and the shares of the open
\* position, and of every trade, are a non-negative integer.
C16_CapitalAndSharesNonNegative ==
    (prog \in {"run", "api", "run_backtest"} /\ PricesPositive)
    => /\ capital >= 0
       /\ current_position # None
          => current_position[1].shares \in Nat
       /\ \A i \in DOMAIN trades : trades[i].shares \in Nat

\* Backtester.run holds a position that took capital down to the cash buffer,
\* after an earlier trade, all at prices > 0.
C16_Witness ==
    /\ prog = "run"
    /\ PricesPositive
    /\ trades # <<>>
    /\ current_position # None
    /\ current_position[1].shares >= 1
    /\ capital = min_cash_buffer

\* C17: a bar with price <= 0 aborts the run: no position is opened or closed
\* at a non-positive price, no position with negative shares is created, and
\* a run that met such a price at a buy or a sell has no result record.
C17_NonPositivePriceAborts ==
    prog = "run"
    => /\ current_position # None
          => /\ current_position[1].entry_price > 0
             /\ current_position[1].shares >= 0
       /\ \A i \in DOMAIN trades :
              trades[i].entry_price > 0 /\ trades[i].exit_price > 0
       /\ (call.op \in {"execute_buy", "execute_sell"} /\ call.price <= 0)
          => (pc = "raised" /\ result = None)


\* C18: the signal applied to a bar depends only on data available at or
\* before the bar.  The signal is a function of the daily entries it is given,
\* and the entry of a day holds that day's closing price, which is known only
\* after the day's last bar: so once a bar's signal has used the entry of a
\* day, no further bar of that day may follow it.
C18_NoLookahead ==
    [][(prog \in {"run", "run_backtest"} /\ BarStep /\ row.ts > 0 /\ row.src > 0)
       => row'.date # row.src]_vars

\* C19: the indicator value attached to a bar is the value of the indicator
\* entry with the greatest timestamp <= the bar's timestamp, undefined when
\* there is no such entry, and never that of an entry with a timestamp
\* greater than the bar's.
C19_AsOfAlignment ==
    (prog = "run_backtest" /\ row.ts > 0)
    => LET E == {i \in DOMAIN indicator : indicator[i].date <= row.date}
       IN  /\ row.src <= row.date
           /\ E = {} => row.nan
           /\ E # {}
              => LET e == indicator[CHOOSE i \in E : \A j \in E :
                                        indicator[j].date <= indicator[i].date]
                 IN  /\ row.nan = e.nan
                     /\ ~row.nan => (row.ema = e.value /\ row.src = e.date)

\* run_backtest has processed a bar of day 3 whose attached value is that of
\* day 3's entry, in a series whose first day is undefined and which has an
\* entry for a later day.
C19_Witness ==
    /\ prog = "run_backtest"
    /\ row.ts > 0
    /\ row.date = 3
    /\ ~row.nan
    /\ row.ema = indicator[3].value
    /\ row.ema # indicator[2].value
    /\ indicator[1].nan
    /\ Len(indicator) > 3


\* C20: with capital 50000, fraction 0.1 and buffer 15000, the ten-bar daily
\* series with Buy on bar 1 and Sell on bar 10 at a price 8% above the entry
\* price yields exactly one trade with profit > 0 and points 1.5 times the
\* time_delta at the closing bar, no open position, and the final capital
\* 50000 - cost + shares * exit price.
C20_EndToEnd ==
    (prog = "e2e" /\ pc = "done")
    => /\ result # None
       /\ Len(trades) = 1
       /\ trades[1].profit > 0
       /\ trades[1].exit_price * 100 = trades[1].entry_price * 108
       /\ trades[1].points = 3 * trades[1].time_delta
       /\ trades[1].time_delta = time_delta - TimeDeltaStep
       /\ result[1].points = trades[1].points
       /\ result[1].trades = 1
       /\ result[1].successful_trades = 1
       /\ ~result[1].open_position
       /\ current_position = None
       /\ capital = 50000 - trades[1].shares * trades[1].entry_price
                    + trades[1].shares * trades[1].exit_price
       /\ result[1].portfolio_value = capital

\* The ten-bar run has ended: 50 shares bought at 100 on bar 1 and sold at 108
\* on bar 10.
C20_Witness ==
    /\ prog = "e2e"
    /\ pc = "done"
    /\ now = 10
    /\ Len(trades) = 1
    /\ trades[1].entry_date = 1
    /\ trades[1].exit_date = 10
    /\ trades[1].shares = 50
    /\ capital = 50400


\* C21: Backtester.run called a second time on the same instance, with the
\* same data and strategy, returns the record the first call returned: the
\* second run starts from capital = initial_capital, no trade, no position,
\* time_delta 1.0 and every tally 0, as a run on a fresh instance does.
C21_RunIsIdempotent ==
    (prog = "rerun" /\ replay.runs = 1)
    => /\ (pc = "days" /\ day = 0)
          => /\ capital = initial_capital
             /\ trades = <<>>
             /\ current_position = None
             /\ time_delta = InitialTimeDelta
             /\ points_tally = 0
             /\ successful_trades = 0
             /\ failed_trades = 0
       /\ pc = "done" => result = replay.first

\* The second run on the instance has returned, after a first run that closed
\* a trade on a day later than the first and ended with a position open.
C21_Witness ==
    /\ prog = "rerun"
    /\ replay.runs = 1
    /\ pc = "done"
    /\ result # None
    /\ replay.first # None
    /\ Len(trades) = 1
    /\ trades[1].time_delta > InitialTimeDelta
    /\ trades[1].exit_price # trades[1].entry_price
    /\ current_position # None
    /\ result[1].points # 0


\* C22: Backtester.run_backtest called a second time on the same instance,
\* with the same data and strategy, returns the record the first call
\* returned.
C22_RunBacktestIsIdempotent ==
    (prog = "rerun_bt" /\ replay.runs = 1 /\ pc = "done")
    => result = replay.first


\* The symbols of the batch whose run does not raise.
Succeeded == {s \in Symbols : ~batch.data[s].raises}

\* The sum of f over the set S.
RECURSIVE SumOver(_, _)
SumOver(S, f) ==
    IF S = {} THEN 0
    ELSE LET x == CHOOSE y \in S : TRUE IN f[x] + SumOver(S \ {x}, f)

\* The record of symbol s when it is run alone on a fresh Backtester.
SoloRecord(s) ==
    LET d == batch.data[s]
    IN  [symbol |-> s,
         portfolio_value |-> DefaultInitialCapital + d.profit,
         total_return |-> [num |-> d.profit * 100, den |-> DefaultInitialCapital],
         points |-> d.points,
         trades |-> d.trades,
         successful_trades |-> d.wins,
         failed_trades |-> d.trades - d.wins,
         open_position |-> FALSE,
         minute_decisions |-> d.bars]

\* C23: in a batch, a symbol whose run raises returns None and is counted in
\* no metric; every other symbol returns the record it has when run alone, and
\* the metrics are those of the symbols that did not raise.
C23_FailedSymbolIsIsolated ==
    prog = "batch"
    => /\ \A s \in Symbols :
              batch.wpc[s] = "returned"
              => batch.ret[s] = IF batch.data[s].raises THEN None
                                ELSE <<SoloRecord(s)>>
       /\ pc = "done"
          => /\ Len(batch.results) = Cardinality(Succeeded)
             /\ \A i \in DOMAIN batch.results :
                    /\ batch.results[i].symbol \in Succeeded
                    /\ batch.results[i] = SoloRecord(batch.results[i].symbol)
             /\ Succeeded = {} => batch.agg = None /\ batch.scores = None
             /\ Succeeded # {}
                => LET n == Cardinality(Succeeded)
                       P == SumOver(Succeeded, [s \in Symbols |-> batch.data[s].points])
                       T == SumOver(Succeeded, [s \in Symbols |-> batch.data[s].trades])
                       W == SumOver(Succeeded, [s \in Symbols |-> batch.data[s].wins])
                       R == SumOver(Succeeded,
                                    [s \in Symbols |-> batch.data[s].profit * 100])
                       agg == batch.agg[1]
                   IN  /\ agg.total_points = [num |-> P, den |-> 200]
                       /\ agg.total_trades = T
                       /\ agg.total_success = W
                       /\ agg.avg_points = [num |-> P, den |-> 200 * n]
                       /\ agg.avg_return =
                              [num |-> R, den |-> DefaultInitialCapital * n]
                       /\ IF T > 0
                          THEN agg.win_rate = [num |-> W * 100, den |-> T]
                          ELSE agg.win_rate.num = 0

C23_Witness ==
    /\ prog = "batch" /\ pc = "done"
    /\ batch.data[2].raises /\ batch.ret[2] = None
    /\ ~batch.data[1].raises /\ ~batch.data[3].raises
    /\ Len(batch.results) = 2
    /\ batch.results[1].trades = 1 /\ batch.results[2].trades = 1
    /\ batch.scores # None

\* What the task of symbol s leaves on its own instance at each of its steps.
OwnInstance(s) ==
    IF batch.wpc[s] = "queued" THEN None
    ELSE IF batch.wpc[s] = "created" \/ batch.data[s].raises THEN FreshInstance
    ELSE [capital |-> DefaultInitialCapital + batch.data[s].profit,
          trades |-> batch.data[s].trades,
          successful_trades |-> batch.data[s].wins,
          failed_trades |-> batch.data[s].trades - batch.data[s].wins,
          points_tally |-> batch.data[s].points]

\* The returns of the symbols 1..k run one after another, each to its end.
RECURSIVE SequentialReturns(_)
SequentialReturns(k) ==
    IF k = 0 THEN <<>>
    ELSE Append(SequentialReturns(k - 1),
                IF batch.data[k].raises THEN None ELSE <<SoloRecord(k)>>)

\* C24: whatever the order the tasks of the pool take their steps in, the
\* instance of a task holds what its own symbol put there, every returned
\* record is the one of the sequential run, and so are the merged metrics.
C24_WorkersShareNoState ==
    prog = "batch"
    => /\ \A s \in Symbols :
              /\ batch.inst[s] = OwnInstance(s)
              /\ batch.wpc[s] = "returned"
                 => batch.ret[s] = SequentialReturns(MaxSymbols)[s]
       /\ pc = "done"
          => /\ batch.results = Collected(SequentialReturns(MaxSymbols))
             /\ batch.results # <<>>
                => batch.agg = <<Aggregate(Collected(SequentialReturns(MaxSymbols)))>>

\* A later symbol has returned while an earlier one is between its steps.
C24_Witness ==
    /\ prog = "batch" /\ pc = "pool"
    /\ batch.wpc[3] = "returned" /\ batch.ret[3] # None
    /\ batch.wpc[1] = "ran" /\ batch.inst[1].trades = 1
    /\ batch.wpc[2] = "created"
    /\ batch.data[3] # batch.data[1]

\* C29 as stated: the written total_points is the sum of the records' points
\* and the written averages and win rate are the exact quotients.
C29_AggregateIsExact ==
    (prog = "batch" /\ pc = "done")
    => IF batch.results = <<>> THEN batch.scores = None
       ELSE LET n == Len(batch.results)
                P == Sum([i \in DOMAIN batch.results |-> batch.results[i].points])
                T == Sum([i \in DOMAIN batch.results |-> batch.results[i].trades])
                W == Sum([i \in DOMAIN batch.results |->
                              batch.results[i].successful_trades])
                R == Sum([i \in DOMAIN batch.results |->
                              batch.results[i].total_return.num])
                w == batch.scores[1]
            IN  /\ 2 * w.total_points = P
                /\ w.total_trades = T
                /\ 2 * n * w.average_points = P
                /\ DefaultInitialCapital * n * w.average_return = 100 * R
                /\ IF T > 0 THEN T * w.win_rate = 10000 * W ELSE w.win_rate = 0

\* C29: the written record comes from the successful records only:
\* total_trades is the sum of their trades; total_points, average_points,
\* average_return and win_rate are their sum, means and success percentage (0
\* without trades), each rounded to the nearest hundredth; without a
\* successful record nothing is written.
C29_AggregateIsRounded ==
    (prog = "batch" /\ pc = "done")
    => IF batch.results = <<>> THEN batch.scores = None
       ELSE LET n == Len(batch.results)
                P == Sum([i \in DOMAIN batch.results |-> batch.results[i].points])
                T == Sum([i \in DOMAIN batch.results |-> batch.results[i].trades])
                W == Sum([i \in DOMAIN batch.results |->
                              batch.results[i].successful_trades])
                R == Sum([i \in DOMAIN batch.results |->
                              batch.results[i].total_return.num])
                w == batch.scores[1]
            IN  /\ Abs(2 * w.total_points - P) <= 1
                /\ w.total_trades = T
                /\ Abs(2 * n * w.average_points - P) <= n
                /\ Abs(2 * DefaultInitialCapital * n * w.average_return - 200 * R)
                       <= DefaultInitialCapital * n
                /\ IF T > 0 THEN Abs(2 * T * w.win_rate - 20000 * W) <= T
                   ELSE w.win_rate = 0

C29_Witness ==
    /\ prog = "batch" /\ pc = "done"
    /\ Len(batch.results) = 2
    /\ batch.scores # None
    /\ batch.scores[1].total_trades = 2
    /\ batch.scores[1].win_rate = 5000
    /\ batch.scores[1].total_points \in {-39, -38}
    /\ batch.data[2].raises


\* The minimum window of the strategy of that name.
Lookback(name) ==
    CASE name = <<"M", "A", "C", "D">> -> 35
      [] name = <<"R", "S", "I">> -> 14
      [] name = <<"E", "M", "A">> -> 30
      [] name = <<"B", "B", "A", "N", "D", "S">> -> 20
      [] name = <<"T", "R", "I", "M", "A">> -> 35

\* C25: with fewer daily bars than the strategy's lookback prepare_data
\* raises and run ends with the exception: no bar is met, no position opened,
\* no trade recorded, no record returned; with enough bars the loop starts.
C25_InsufficientDataRaises ==
    /\ [](prog = "run"
          => /\ (pc = "raised" /\ call.op = "prepare_data")
                => /\ call.price < Lookback(call.strategy)
                   /\ now = 0 /\ day = 0 /\ row = NoRow
                   /\ current_position = None
                   /\ trades = <<>>
                   /\ capital = initial_capital
                   /\ result = None
             /\ (pc \in {"start", "loaded"}) => (now = 0 /\ result = None))
    /\ [][(prog = "run" /\ pc = "loaded")
          => pc' = IF call.price < Lookback(call.strategy) THEN "raised"
                   ELSE "days"]_vars
    /\ [][(prog = "run" /\ pc = "raised") => pc' = "raised"]_vars

\* A series one bar short of the lookback of RSI has raised.
C25_Witness ==
    /\ prog = "run" /\ pc = "raised"
    /\ call.op = "prepare_data"
    /\ call.strategy = <<"R", "S", "I">>
    /\ call.price = 13


\* C26: a bar whose indicator is not a number raises nothing and leaves
\* capital, the position and the ledger as they are, at any price; the day
\* counter goes on: run_backtest steps time_delta when the bar starts a new
\* day, analyze_rsi at the end of every day.
C26_UndefinedIndicatorIsHold ==
    /\ [][(prog \in BtProgs \cup {"rsi"} /\ now' = now + 1 /\ row'.nan)
          => /\ pc' # "raised"
             /\ capital' = capital
             /\ current_position' = current_position
             /\ trades' = trades
             /\ prog \in BtProgs
                => time_delta' = IF row'.date # current_day
                                 THEN time_delta + TimeDeltaStep
                                 ELSE time_delta]_vars
    /\ [][(prog = "rsi" /\ pc = "bars" /\ pc' = "days")
          => time_delta' = time_delta + TimeDeltaStep]_vars
    /\ []((prog = "rsi" /\ pc = "days")
          => time_delta = InitialTimeDelta + day * TimeDeltaStep)

\* A bar without RSI has passed at another price than the entry price of the
\* position that is open, on a later day.
C26_Witness ==
    /\ prog = "rsi"
    /\ pc = "days"
    /\ row.nan /\ row.ts = now
    /\ current_position # None
    /\ current_position[1].entry_date < row.ts
    /\ row.Close # current_position[1].entry_price
    /\ time_delta > InitialTimeDelta + TimeDeltaStep

\* C30: the points of the record of analyze_rsi and analyze_bbands are the
\* points of the closed trades plus those of the position open at the end.
C30_PointsIncludeOpenPosition ==
    (prog \in {"rsi", "bbands"} /\ pc = "done" /\ result # None)
    => result[1].points =
           SumPoints(trades)
           + (IF current_position # None
              THEN BbPoints(last_price, current_position[1].entry_price,
                            [num |-> last_price,
                             den |-> current_position[1].entry_price],
                            time_delta)
              ELSE 0)


\* The programs that keep the ledger of a Backtester over one run.
LedgerProgs == {"run", "e2e", "rerun", "api", "run_backtest"}

\* C27: during a run the ledger only grows, by one record at its end exactly
\* when an open position is closed; records once written stay as they are;
\* every trade ends no earlier than it starts and no later than the next one
\* starts.
C27_LedgerAppendOnly ==
    /\ [][(prog \in LedgerProgs /\ pc # "done")
          => IF current_position # None /\ current_position' = None
             THEN /\ Len(trades') = Len(trades) + 1
                  /\ SubSeq(trades', 1, Len(trades)) = trades
                  /\ trades'[Len(trades')].entry_date
                         = current_position[1].entry_date
             ELSE trades' = trades]_vars
    /\ [](prog \in LedgerProgs
          => /\ \A i \in DOMAIN trades :
                    trades[i].entry_date <= trades[i].exit_date
             /\ \A i \in 1..(Len(trades) - 1) :
                    trades[i].exit_date <= trades[i + 1].entry_date)

\* Two trades are in the ledger, the second entered after the first was left.
C27_Witness ==
    /\ prog \in LedgerProgs
    /\ Len(trades) = 2
    /\ trades[1].exit_date < trades[2].entry_date
    /\ trades[1].exit_price # trades[2].exit_price


\* The sum of two fractions.
FracAdd(a, b) == [num |-> a.num * b.den + b.num * a.den, den |-> a.den * b.den]

RECURSIVE SumProfit(_)
SumProfit(ledger) ==
    IF ledger = <<>> THEN 0 ELSE Head(ledger).profit + SumProfit(Tail(ledger))

\* The programs that run a simulation loop over capital, position and ledger.
TradingProgs ==
    {"run", "e2e", "rerun", "run_backtest", "rerun_bt", "bbands", "rsi"}

\* C31: in every state capital plus the cost of the open position, if there
\* is one, equals initial_capital plus the profits of the ledger, and the
\* profit of every trade is shares * exit price - shares * entry price.
C31_AccountingConservation ==
    prog \in TradingProgs
    => /\ capital + (IF current_position # None THEN current_position[1].cost
                     ELSE 0)
              = initial_capital + SumProfit(trades)
       /\ current_position # None
          => current_position[1].cost
                 = current_position[1].shares * current_position[1].entry_price
       /\ \A i \in DOMAIN trades :
              trades[i].profit = trades[i].shares * trades[i].exit_price
                                 - trades[i].shares * trades[i].entry_price

\* A trade with a profit is in the ledger and the next position is open.
C31_Witness ==
    /\ prog \in {"run", "run_backtest"}
    /\ Len(trades) = 1
    /\ trades[1].profit # 0
    /\ current_position # None
    /\ capital # initial_capital


\* C32: the points of every trade execute_sell records are positive exactly
\* when its profit is, which is when it was counted as successful, negative
\* exactly when it was counted as failed, and never 0.
C32_PointsSignMatchesOutcome ==
    prog \in {"run", "e2e", "rerun", "api"}
    => /\ \A i \in DOMAIN trades :
              /\ trades[i].points # 0
              /\ trades[i].points > 0 <=> trades[i].profit > 0
       /\ successful_trades
              = Cardinality({i \in DOMAIN trades : trades[i].points > 0})
       /\ failed_trades
              = Cardinality({i \in DOMAIN trades : trades[i].points < 0})


\* C33: in Backtester.run a bar opens or closes a position only on a day
\* that has seen no open or close before: a position opens under the day's
\* Buy and closes under the day's Sell, the signal changes only with the day,
\* and every trade leaves on a later day than it entered.
C33_OneTransitionPerDay ==
    /\ [][(prog \in RunProgs /\ pc # "done"
           /\ current_position' # current_position)
          => /\ replay.moved < day
             /\ day' = day
             /\ signal' = signal
             /\ current_position = None => signal = "Buy"
             /\ current_position # None
                => /\ signal = "Sell"
                   /\ current_position' = None
                   /\ Len(trades') = Len(trades) + 1]_vars
    /\ [][(prog \in RunProgs /\ pc # "done" /\ signal' # signal)
          => (day' = day + 1 /\ current_position' = current_position)]_vars

\* The first bar of a day closed the position and the second bar of that day
\* left the book flat.
C33_Witness ==
    /\ prog = "run"
    /\ Len(trades) = 1
    /\ trades[1].exit_date = now - 1
    /\ row.ts = now /\ row.date = day
    /\ replay.moved = day
    /\ signal = "Sell"
    /\ current_position = None


\* self.time_delta while the bars of day d are met in Backtester.run.
TimeDeltaOfDay(d) == InitialTimeDelta + (d - 1) * TimeDeltaStep

\* C34: a position left open at the end of Backtester.run gives the record
\* the points and the portfolio value that selling it on the final bar, at
\* the last price and with the time_delta of the last day, would have given.
C34_OpenScoredAsSoldOnLastBar ==
    (prog \in RunProgs /\ pc = "done" /\ result # None
     /\ current_position # None /\ current_position[1].entry_date < now)
    => LET position == current_position[1]
           sold == Backtester_calculate_points(
                       [num |-> last_price, den |-> position.entry_price],
                       TimeDeltaOfDay(day))
       IN  /\ result[1].points = SumPoints(trades) + sold
           /\ result[1].portfolio_value
                  = capital + position.shares * last_price


\* C35: the three copies of the schedule give the same points: every trade
\* analyze_rsi records has the points StrategyScorer.calculate_points and
\* Backtester.calculate_points give its ratio at its time_delta.
C35_SchedulesAgree ==
    /\ \A ratio \in Ratios, td \in InitialTimeDelta..(InitialTimeDelta + MaxBars) :
           Scorer_calculate_points(ratio, td)
               = Backtester_calculate_points(ratio, td)
    /\ prog = "rsi"
       => \A i \in DOMAIN trades :
              /\ trades[i].points
                     = Scorer_calculate_points(trades[i].ratio, trades[i].time_delta)
              /\ trades[i].points
                     = Backtester_calculate_points(trades[i].ratio,
                                                   trades[i].time_delta)


\* C36: with bands in order (lower <= middle) no bar of analyze_bbands is
\* below the lower band and above the middle one, so no position is opened:
\* the ledger stays empty, capital stays initial_capital, and the record has
\* no trade, no open position and 0 points.
C36_BbandsNeverBuys ==
    /\ [][(prog = "bbands" /\ now' = now + 1 /\ bands.lower <= bands.middle)
          => /\ ~(row'.Close < bands.lower /\ row'.Close > bands.middle)
             /\ current_position' = None]_vars
    /\ []((prog = "bbands" /\ bands.lower <= bands.middle)
          => /\ current_position = None
             /\ trades = <<>>
             /\ capital = initial_capital
             /\ points_tally = 0
             /\ (pc = "done" /\ result # None)
                => /\ result[1].trades = 0
                   /\ ~result[1].open_position
                   /\ result[1].points = 0
                   /\ result[1].portfolio_value = initial_capital)

\* A run has ended that met a bar under the lower band and one over the upper.
C36_Witness ==
    /\ prog = "bbands"
    /\ pc = "done"
    /\ result # None
    /\ stats.lower_crosses > 0
    /\ stats.upper_crosses > 0


\* A loop has ended: with a record, or with an exception.
Ended == pc \in {"done", "raised"}

\* C37: the loops of Backtester.run and run_backtest take the bars one by one
\* in the order of the series, each bar once, and end with a record or an
\* exception; a series given in advance is met whole and as it is.
C37_LoopTerminates ==
    /\ [][(prog \in LoopProgs /\ pc # "done" /\ (now' # now \/ row' # row))
          => /\ now' = now + 1
             /\ row'.ts = now'
             /\ row'.ts = row.ts + 1
             /\ row'.date >= row.date
             /\ (prog \in {"rerun", "rerun_bt"} /\ replay.runs = 1)
                => /\ now' <= Len(replay.tape)
                   /\ row'.Close = replay.tape[now'].Close
                   /\ row'.date = replay.tape[now'].date]_vars
    /\ []((prog \in LoopProgs /\ pc = "done")
          => /\ result # None
             /\ (prog \in {"rerun", "rerun_bt"} /\ replay.runs = 1)
                => now = Len(replay.tape))
    /\ (prog \in LoopProgs) ~> Ended
    /\ (prog \in {"rerun", "rerun_bt"}) ~> (Ended /\ (replay.runs = 1 \/ pc = "raised"))

\* The second pass over a series of three bars has ended.
C37_Witness ==
    /\ prog \in {"rerun", "rerun_bt"}
    /\ replay.runs = 1
    /\ pc = "done"
    /\ Len(replay.tape) = 3
    /\ now = 3


\* C38: update_strategy_scores returns without raising; when a step of it
\* failed the collection holds the documents it held before, and otherwise
\* one document per strategy of the file with that strategy's total_points.
C38_UpdateAllOrNothing ==
    prog = "update"
    => /\ pc # "raised"
       /\ pc = "done"
          => IF mongo.caught
             THEN mongo.points_tally = mongo.before
             ELSE mongo.points_tally = Docs(mongo.file.items, Len(mongo.file.items))

====
